---------------------------- MODULE Spec2Model ----------------------------
(***************************************************************************)
(* A model of the hentaijs scraping clients: the rot13Cipher utility, the  *)
(* token unscrambling of HentaiHaven.getEpisode and the pagination         *)
(* arithmetic of Rule34.search.                                            *)
(*                                                                         *)
(* Text is modelled as a sequence of character codes (String.charCodeAt),  *)
(* so <<104, 105>> is the string "hi".  A JavaScript value is a record     *)
(* [t |-> its typeof / kind, s |-> its text when it is a string].          *)
(***************************************************************************)
EXTENDS Integers, Sequences, FiniteSets, TLC

VARIABLES
    rotInput,   \* the value the caller passes to the first rot13Cipher call
    rotCalls    \* the rot13Cipher calls made so far: <<[arg, res], ...>>

rotVars == <<rotInput, rotCalls>>

----------------------------------------------------------------------------
(* Bounds *)

\* Longest string over SampleChars given to rot13Cipher.
MaxStrLen == 3

----------------------------------------------------------------------------
(* JavaScript values and call outcomes *)

StrV(s) == [t |-> "string", s |-> s]

Undefined == [t |-> "undefined", s |-> <<>>]

NonStrings ==
    { [t |-> k, s |-> <<>>] : k \in {"undefined", "null", "number", "boolean", "object"} }

Return(v) == [k |-> "return", err |-> "", v |-> v]

Throw(e) == [k |-> "throw", err |-> e, v |-> <<>>]

\* All sequences over S of length at most n.
SeqUpTo(S, n) == UNION { [1..m -> S] : m \in 0..n }

----------------------------------------------------------------------------
(* rot13Cipher *)

\* The regular expression /[a-zA-Z]/.
IsAsciiLetter(c) == (c >= 65 /\ c <= 90) \/ (c >= 97 /\ c <= 122)

Rot13CharShift12(c) ==
    LET isUpperCase == c >= 65 /\ c <= 90
    IN  IF isUpperCase THEN ((c - 65 + 12) % 26) + 65 ELSE ((c - 97 + 12) % 26) + 97

Rot13CharNoWrap(c) == c + 13

\* The replace callback: the shifted char code of one matched letter.
Rot13Char(c) ==
    LET isUpperCase == c >= 65 /\ c <= 90
    IN  IF isUpperCase THEN ((c - 65 + 13) % 26) + 65 ELSE ((c - 97 + 13) % 26) + 97

\* str.replace(/[a-zA-Z]/g, callback) on a string.
Rot13Str(s) == [i \in 1..Len(s) |-> IF IsAsciiLetter(s[i]) THEN Rot13Char(s[i]) ELSE s[i]]

Rot13CipherNoTypeCheck(v) == Return(Rot13Str(v.s))

\* rot13Cipher(str): the type check, the empty string, the replacement.
rot13Cipher(v) ==
    IF v.t # "string" THEN Throw("TypeError")
    ELSE IF Len(v.s) = 0 THEN Return(<<>>)
    ELSE Return(Rot13Str(v.s))

\* Printable ASCII.
PrintableAscii == 32..126

\* Characters at the edges of the letter ranges, the middle of each alphabet,
\* a digit, a space, a line feed and a Latin-1 letter (e with acute accent).
SampleChars == {10, 32, 48, 64, 65, 77, 78, 90, 91, 96, 97, 109, 110, 122, 123, 233}

RotInputs ==
    { StrV(s) : s \in SeqUpTo(PrintableAscii, 1) \cup SeqUpTo(SampleChars, MaxStrLen) }
        \cup NonStrings

InitRot == /\ rotInput \in RotInputs
           /\ rotCalls = <<>>

\* The caller calls rot13Cipher: first on its input, then on what the
\* previous call returned.
Rot13Call ==
    /\ Len(rotCalls) < 2
    /\ rotCalls # <<>> => rotCalls[Len(rotCalls)].res.k = "return"
    /\ LET arg == IF rotCalls = <<>> THEN rotInput
                  ELSE StrV(rotCalls[Len(rotCalls)].res.v)
       IN  rotCalls' = Append(rotCalls, [arg |-> arg, res |-> rot13Cipher(arg)])
    /\ UNCHANGED rotInput

----------------------------------------------------------------------------
(* Base64: btoa and atob *)

\* The base64 alphabet A-Z a-z 0-9 + /, as the value of each character.
IsB64Char(c) ==
    \/ (c >= 65 /\ c <= 90) \/ (c >= 97 /\ c <= 122) \/ (c >= 48 /\ c <= 57)
    \/ c = 43 \/ c = 47

B64Value(c) ==
    IF c >= 65 /\ c <= 90 THEN c - 65
    ELSE IF c >= 97 /\ c <= 122 THEN c - 71
    ELSE IF c >= 48 /\ c <= 57 THEN c + 4
    ELSE IF c = 43 THEN 62 ELSE 63

B64Digit(n) ==
    IF n < 26 THEN n + 65
    ELSE IF n < 52 THEN n + 71
    ELSE IF n < 62 THEN n - 4
    ELSE IF n = 62 THEN 43 ELSE 47

RECURSIVE B64Encode(_)
\* Three bytes become four characters; one or two trailing bytes are padded
\* with "=".
B64Encode(s) ==
    IF Len(s) = 0 THEN <<>>
    ELSE IF Len(s) = 1 THEN
        LET n == s[1] * 16
        IN  <<B64Digit(n \div 64), B64Digit(n % 64), 61, 61>>
    ELSE IF Len(s) = 2 THEN
        LET n == (s[1] * 256 + s[2]) * 4
        IN  <<B64Digit(n \div 4096), B64Digit((n \div 64) % 64), B64Digit(n % 64), 61>>
    ELSE
        LET n == s[1] * 65536 + s[2] * 256 + s[3]
        IN  <<B64Digit(n \div 262144), B64Digit((n \div 4096) % 64),
              B64Digit((n \div 64) % 64), B64Digit(n % 64)>>
                \o B64Encode(SubSeq(s, 4, Len(s)))

\* btoa(text): the text must be a binary string (every code at most 255).
btoa(s) ==
    IF \E i \in 1..Len(s) : s[i] > 255 THEN Throw("InvalidCharacterError")
    ELSE Return(B64Encode(s))

\* ASCII whitespace: tab, line feed, form feed, carriage return, space.
IsAsciiWhitespace(c) == c \in {9, 10, 12, 13, 32}

RECURSIVE B64Decode(_)
\* Four characters become three bytes; of two or three trailing characters
\* the left-over 4 or 2 bits are dropped.
B64Decode(s) ==
    IF Len(s) < 2 THEN <<>>
    ELSE IF Len(s) = 2 THEN
        LET n == B64Value(s[1]) * 64 + B64Value(s[2])
        IN  <<n \div 16>>
    ELSE IF Len(s) = 3 THEN
        LET n == B64Value(s[1]) * 4096 + B64Value(s[2]) * 64 + B64Value(s[3])
        IN  <<n \div 1024, (n \div 4) % 256>>
    ELSE
        LET n == B64Value(s[1]) * 262144 + B64Value(s[2]) * 4096
                    + B64Value(s[3]) * 64 + B64Value(s[4])
        IN  <<n \div 65536, (n \div 256) % 256, n % 256>>
                \o B64Decode(SubSeq(s, 5, Len(s)))

\* atob(data), the forgiving base64 decode: whitespace is removed, one or
\* two "=" are removed from the end of a text whose length is a multiple of
\* four, and a text of length 4k+1 or holding any character outside the
\* alphabet is rejected.
atob(data) ==
    LET stripped == SelectSeq(data, LAMBDA c : ~IsAsciiWhitespace(c))
        n == Len(stripped)
        unpadded ==
            IF n > 0 /\ n % 4 = 0 /\ stripped[n] = 61
            THEN IF stripped[n - 1] = 61 THEN SubSeq(stripped, 1, n - 2)
                 ELSE SubSeq(stripped, 1, n - 1)
            ELSE stripped
    IN  IF Len(unpadded) % 4 = 1 THEN Throw("InvalidCharacterError")
        ELSE IF \E i \in 1..Len(unpadded) : ~IsB64Char(unpadded[i])
             THEN Throw("InvalidCharacterError")
        ELSE Return(B64Decode(unpadded))

----------------------------------------------------------------------------
(* JSON.parse, on flat JSON texts *)

(***************************************************************************)
(* A parsed JSON value is [t, s, m]: t its kind ("object", "array",        *)
(* "string", "number", "true", "false", "null"), s the text of a string or *)
(* the literal of a number, m the members of an object in source order,    *)
(* each [key, val] with val a scalar [t, s].                               *)
(*                                                                         *)
(* JsonParse covers flat JSON: a scalar, the empty array, or an object     *)
(* whose member values are scalars; strings hold no escape sequence and    *)
(* numbers are integers.  Every text the model feeds it is either flat     *)
(* JSON or not JSON at all, and on those it agrees with JSON.parse.        *)
(***************************************************************************)
JScalar(t, s) == [t |-> t, s |-> s]

JValue(t, s, m) == [t |-> t, s |-> s, m |-> m]

JsonFail == [ok |-> FALSE, v |-> JScalar("null", <<>>), next |-> 0]

JsonOk(v, next) == [ok |-> TRUE, v |-> v, next |-> next]

\* JSON whitespace: tab, line feed, carriage return, space.
IsJsonWs(c) == c \in {9, 10, 13, 32}

IsDigit(c) == c >= 48 /\ c <= 57

\* The first position from i on that holds no whitespace (Len(s) + 1 at the end).
SkipWs(s, i) ==
    CHOOSE j \in i..(Len(s) + 1) :
        /\ \A k \in i..(j - 1) : IsJsonWs(s[k])
        /\ j = Len(s) + 1 \/ ~IsJsonWs(s[j])

\* Whether text w stands in s at position i.
StartsAt(s, i, w) ==
    /\ i >= 1
    /\ i + Len(w) - 1 <= Len(s)
    /\ \A k \in 1..Len(w) : s[i + k - 1] = w[k]

\* A string literal opening at s[i] = '"'.
JsonString(s, i) ==
    LET closes == { j \in (i + 1)..Len(s) : s[j] = 34 }
    IN  IF closes = {} THEN JsonFail
        ELSE LET j == CHOOSE c \in closes : \A d \in closes : c <= d
                 body == SubSeq(s, i + 1, j - 1)
             IN  IF \E k \in 1..Len(body) : body[k] < 32 \/ body[k] = 92 THEN JsonFail
                 ELSE JsonOk(JScalar("string", body), j + 1)

\* An integer literal: an optional "-", then "0" or a digit run without a
\* leading zero.
JsonNumber(s, i) ==
    LET d == IF s[i] = 45 THEN i + 1 ELSE i
        end == CHOOSE j \in d..(Len(s) + 1) :
                   /\ \A k \in d..(j - 1) : IsDigit(s[k])
                   /\ j = Len(s) + 1 \/ ~IsDigit(s[j])
    IN  IF end = d THEN JsonFail
        ELSE IF s[d] = 48 /\ end > d + 1 THEN JsonFail
        ELSE IF end <= Len(s) /\ s[end] \in {46, 69, 101} THEN JsonFail
        ELSE JsonOk(JScalar("number", SubSeq(s, i, end - 1)), end)

JsonScalar(s, i) ==
    IF i > Len(s) THEN JsonFail
    ELSE IF s[i] = 34 THEN JsonString(s, i)
    ELSE IF s[i] = 45 \/ IsDigit(s[i]) THEN JsonNumber(s, i)
    ELSE IF StartsAt(s, i, <<116, 114, 117, 101>>) THEN JsonOk(JScalar("true", <<>>), i + 4)
    ELSE IF StartsAt(s, i, <<102, 97, 108, 115, 101>>) THEN JsonOk(JScalar("false", <<>>), i + 5)
    ELSE IF StartsAt(s, i, <<110, 117, 108, 108>>) THEN JsonOk(JScalar("null", <<>>), i + 4)
    ELSE JsonFail

RECURSIVE JsonMembers(_, _, _)
\* The members of an object from position i (after "{" or ","), acc the
\* members read so far.
JsonMembers(s, i, acc) ==
    LET k == SkipWs(s, i)
    IN  IF k > Len(s) \/ s[k] # 34 THEN JsonFail
        ELSE
        LET key == JsonString(s, k)
            c == IF key.ok THEN SkipWs(s, key.next) ELSE 0
        IN  IF ~key.ok \/ c > Len(s) \/ s[c] # 58 THEN JsonFail
            ELSE
            LET val == JsonScalar(s, SkipWs(s, c + 1))
                e == IF val.ok THEN SkipWs(s, val.next) ELSE 0
                members == Append(acc, [key |-> key.v.s, val |-> val.v])
            IN  IF ~val.ok \/ e > Len(s) THEN JsonFail
                ELSE IF s[e] = 125 THEN JsonOk(JValue("object", <<>>, members), e + 1)
                ELSE IF s[e] = 44 THEN JsonMembers(s, e + 1, members)
                ELSE JsonFail

JsonValue(s, i) ==
    IF i > Len(s) THEN JsonFail
    ELSE IF s[i] = 123 THEN
        LET k == SkipWs(s, i + 1)
        IN  IF k <= Len(s) /\ s[k] = 125 THEN JsonOk(JValue("object", <<>>, <<>>), k + 1)
            ELSE JsonMembers(s, i + 1, <<>>)
    ELSE IF s[i] = 91 THEN
        LET k == SkipWs(s, i + 1)
        IN  IF k <= Len(s) /\ s[k] = 93 THEN JsonOk(JValue("array", <<>>, <<>>), k + 1)
            ELSE JsonFail
    ELSE LET r == JsonScalar(s, i)
         IN  IF r.ok THEN JsonOk(JValue(r.v.t, r.v.s, <<>>), r.next) ELSE JsonFail

\* JSON.parse(text): the value, or a SyntaxError.
JsonParse(s) ==
    LET r == JsonValue(s, SkipWs(s, 1))
    IN  IF r.ok /\ SkipWs(s, r.next) = Len(s) + 1
        THEN [k |-> "return", err |-> "", v |-> r.v]
        ELSE [k |-> "throw", err |-> "SyntaxError", v |-> JValue("null", <<>>, <<>>)]

\* value.name for a parsed value that is not null: the value of the last
\* member of that name, undefined when there is none (a string, a number, a
\* boolean and an array have no property en, iv or uri).
JsonGet(v, name) ==
    LET hits == { n \in 1..Len(v.m) : v.m[n].key = name }
    IN  IF hits = {} THEN JScalar("undefined", <<>>)
        ELSE v.m[CHOOSE n \in hits : \A h \in hits : h <= n].val

\* String(x) of a scalar, as FormData.append and a template literal apply it.
JsToString(x) ==
    CASE x.t = "string" -> x.s
      [] x.t = "number" -> IF x.s = <<45, 48>> THEN <<48>> ELSE x.s
      [] x.t = "undefined" -> <<117, 110, 100, 101, 102, 105, 110, 101, 100>>
      [] x.t = "null" -> <<110, 117, 108, 108>>
      [] x.t = "true" -> <<116, 114, 117, 101>>
      [] x.t = "false" -> <<102, 97, 108, 115, 101>>

\* Whether a scalar is truthy, as the || operator tests it.
Truthy(x) ==
    CASE x.t = "string" -> x.s # <<>>
      [] x.t = "number" -> x.s \notin {<<48>>, <<45, 48>>}
      [] x.t = "true" -> TRUE
      [] OTHER -> FALSE

----------------------------------------------------------------------------
(* The clients and their constructors *)

VARIABLES
    client      \* the client instance: its class and the fields its
                \* constructor assigned

clientVars == <<client>>

\* "https://rule34.xxx"
RULE34_BASE_URL ==
    <<104, 116, 116, 112, 115, 58, 47, 47, 114, 117, 108, 101, 51, 52, 46, 120, 120, 120>>

\* "https://ac.rule34.xxx"
RULE34_API_URL ==
    <<104, 116, 116, 112, 115, 58, 47, 47, 97, 99, 46, 114, 117, 108, 101, 51, 52, 46,
      120, 120, 120>>

\* "http://hentaihaven.xxx"
HENTAI_HAVEN_URL ==
    <<104, 116, 116, 112, 58, 47, 47, 104, 101, 110, 116, 97, 105, 104, 97, 118,
      101, 110, 46, 120, 120, 120>>

\* "https://hanime.tv"
HANIME_BASE_URL ==
    <<104, 116, 116, 112, 115, 58, 47, 47, 104, 97, 110, 105, 109, 101, 46, 116, 118>>

\* "https://search.htv-services.com"
HANIME_SEARCH_URL ==
    <<104, 116, 116, 112, 115, 58, 47, 47, 115, 101, 97, 114, 99, 104, 46, 104, 116,
      118, 45, 115, 101, 114, 118, 105, 99, 101, 115, 46, 99, 111, 109>>

\* "https://tube.hentaistream.com"
HENTAI_STREAM_BASE_URL ==
    <<104, 116, 116, 112, 115, 58, 47, 47, 116, 117, 98, 101, 46, 104, 101, 110,
      116, 97, 105, 115, 116, 114, 101, 97, 109, 46, 99, 111, 109>>

\* x || d for a string or undefined x.
OrDefault(x, d) == IF x.t = "string" /\ x.s # <<>> THEN x.s ELSE d

\* The options argument of a constructor: absent, or an object whose fields
\* are strings (a function for signatureGenerator) or undefined.
NoOptions == [given |-> FALSE, baseUrl |-> Undefined, searchUrl |-> Undefined,
              apiUrl |-> Undefined, signatureGenerator |-> Undefined]

\* "https://s.x"
CustomUrl == <<104, 116, 116, 112, 115, 58, 47, 47, 115, 46, 120>>

\* An options object that sets every field.
CustomOptions ==
    [given |-> TRUE, baseUrl |-> StrV(CustomUrl), searchUrl |-> StrV(CustomUrl),
     apiUrl |-> StrV(CustomUrl), signatureGenerator |-> [t |-> "function", s |-> <<>>]]

\* options?.name
OptionalField(options, name) == IF options.given THEN options[name] ELSE Undefined

\* A client of a class that has no such field holds <<>> (or "none") in it.
\* new Rule34(options)
Rule34Client(options) ==
    [kind |-> "Rule34",
     BASE_URL |-> OrDefault(OptionalField(options, "baseUrl"), RULE34_BASE_URL),
     API_URL |-> OrDefault(OptionalField(options, "apiUrl"), RULE34_API_URL),
     SEARCH_URL |-> <<>>,
     generateSignature |-> "none"]

\* new HAnime(options)
HAnimeClient(options) ==
    [kind |-> "HAnime",
     BASE_URL |-> OrDefault(OptionalField(options, "baseUrl"), HANIME_BASE_URL),
     API_URL |-> <<>>,
     SEARCH_URL |-> OrDefault(OptionalField(options, "searchUrl"), HANIME_SEARCH_URL),
     generateSignature |->
         IF OptionalField(options, "signatureGenerator").t = "function"
         THEN "options.signatureGenerator" ELSE "HANIME_SIGNATURE_GENERATOR"]

\* new HentaiHaven(options), for an options object.
HentaiHavenClient(options) ==
    [kind |-> "HentaiHaven",
     BASE_URL |-> OrDefault(options.baseUrl, HENTAI_HAVEN_URL),
     API_URL |-> <<>>,
     SEARCH_URL |-> <<>>,
     generateSignature |-> "none"]

\* new HentaiStream(options)
HentaiStreamClient(options) ==
    [kind |-> "HentaiStream",
     BASE_URL |-> OrDefault(OptionalField(options, "baseUrl"), HENTAI_STREAM_BASE_URL),
     API_URL |-> <<>>,
     SEARCH_URL |-> <<>>,
     generateSignature |-> "none"]

\* An options object that sets no field.
EmptyOptions == [NoOptions EXCEPT !.given = TRUE]

\* The clients a caller may hold: each class, built without options (with
\* an empty options object for HentaiHaven) or with every option set.
Clients ==
    { Rule34Client(NoOptions), Rule34Client(CustomOptions),
      HAnimeClient(NoOptions), HAnimeClient(CustomOptions),
      HentaiHavenClient(EmptyOptions), HentaiHavenClient(CustomOptions),
      HentaiStreamClient(NoOptions), HentaiStreamClient(CustomOptions) }

----------------------------------------------------------------------------
(* Construction of a client *)

VARIABLES
    ctorCall,       \* the class constructed and the options passed to it
    ctorResult      \* the client built, or the error thrown

ctorVars == <<ctorCall, ctorResult>>

Classes == {"Rule34", "HAnime", "HentaiHaven", "HentaiStream"}

\* The values tried for a URL option: absent, "" and a URL.
UrlArgs == { Undefined, StrV(<<>>), StrV(CustomUrl) }

\* The options arguments tried: none at all, or an object with any of its
\* fields set.
OptionsArgs ==
    { NoOptions } \cup
    [given : {TRUE}, baseUrl : UrlArgs, searchUrl : UrlArgs, apiUrl : UrlArgs,
     signatureGenerator : {Undefined, [t |-> "function", s |-> <<>>]}]

NoClient ==
    [kind |-> "none", BASE_URL |-> <<>>, API_URL |-> <<>>, SEARCH_URL |-> <<>>,
     generateSignature |-> "none"]

Built(c) == [k |-> "return", err |-> "", client |-> c]

NotBuilt(e) == [k |-> "throw", err |-> e, client |-> NoClient]

\* new HentaiHaven(options): options.baseUrl is read without `?.`, so an
\* absent options argument throws.
NewHentaiHaven(options) ==
    IF ~options.given
    THEN NotBuilt("TypeError: Cannot read properties of undefined (reading 'baseUrl')")
    ELSE Built(HentaiHavenClient(options))

\* new Class(options)
New(class, options) ==
    CASE class = "Rule34" -> Built(Rule34Client(options))
      [] class = "HAnime" -> Built(HAnimeClient(options))
      [] class = "HentaiHaven" -> NewHentaiHaven(options)
      [] class = "HentaiStream" -> Built(HentaiStreamClient(options))

InitCtor ==
    /\ ctorCall = [class |-> "none", options |-> NoOptions]
    /\ ctorResult = [k |-> "pending", err |-> "", client |-> NoClient]

\* A caller constructs a client.
Construct ==
    /\ ctorCall.class = "none"
    /\ \E class \in Classes, options \in OptionsArgs :
        /\ ctorCall' = [class |-> class, options |-> options]
        /\ ctorResult' = New(class, options)
    /\ UNCHANGED client

----------------------------------------------------------------------------
(* HentaiHaven.getEpisode *)

VARIABLES
    hhPc,           \* "idle", "page", "iframe", "api" (awaiting that response), "done"
    hhId,           \* the id argument of the call
    hhReqs,         \* the HTTP requests issued so far, in order
    hhMeta,         \* the content of the iframe's x-secure-token meta tag, once read
    hhUnscrambled,  \* the outcome of the three decode rounds: the text for JSON.parse
    hhData,         \* decryptedData, once parsed
    hhResult        \* how the call ended: returned or threw

hhVars == <<hhPc, hhId, hhReqs, hhMeta, hhUnscrambled, hhData, hhResult>>

\* Longest raw text the upstream site scrambles into a token.
MaxPayloadLen == 2

Pending == [k |-> "pending", err |-> "", v |-> <<>>]

NoValue == [t |-> "none", s |-> <<>>]

\* The smallest position at which w stands in s, 0 when there is none.
IndexOf(s, w) ==
    LET at == { i \in 1..(Len(s) + 1) : StartsAt(s, i, w) }
    IN  IF at = {} THEN 0 ELSE CHOOSE i \in at : \A j \in at : i <= j

\* String.prototype.includes.
IncludesAsPrefix(s, w) == IndexOf(s, w) = 1

Includes(s, w) == IndexOf(s, w) # 0

\* String.prototype.replace with a string pattern: the first occurrence only.
ReplaceFirst(s, w, r) ==
    LET i == IndexOf(s, w)
    IN  IF i = 0 THEN s
        ELSE SubSeq(s, 1, i - 1) \o r \o SubSeq(s, i + Len(w), Len(s))

\* "/watch/"
WatchPath == <<47, 119, 97, 116, 99, 104, 47>>

\* "episode-"
EpisodeMark == <<101, 112, 105, 115, 111, 100, 101, 45>>

\* "sha512-"
TokenPrefix == <<115, 104, 97, 53, 49, 50, 45>>

\* "https://hentaihaven.xxx/wp-content/plugins/player-logic/"
DefaultPlayerUri ==
    <<104, 116, 116, 112, 115, 58, 47, 47, 104, 101, 110, 116, 97, 105, 104, 97,
      118, 101, 110, 46, 120, 120, 120, 47, 119, 112, 45, 99, 111, 110, 116, 101,
      110, 116, 47, 112, 108, 117, 103, 105, 110, 115, 47, 112, 108, 97, 121, 101,
      114, 45, 108, 111, 103, 105, 99, 47>>

\* "api.php"
ApiPhp == <<97, 112, 105, 46, 112, 104, 112>>

Get(url) == [method |-> "GET", url |-> url, a |-> <<>>, b |-> <<>>]

Post(url, a, b) == [method |-> "POST", url |-> url, a |-> a, b |-> b]

\* x || "" for a string or undefined x.
OrEmpty(x) == IF x.t = "string" THEN x.s ELSE <<>>

\* One round in the reverse order: decode first, substitute second.
RoundDecodeFirst(text) ==
    LET d == atob(text)
    IN  IF d.k = "throw" THEN d ELSE rot13Cipher(StrV(d.v))

\* One round of the unscrambling: rot13Cipher, then atob.
Round(text) == atob(rot13Cipher(StrV(text)).v)

UnscrambleDecodeFirst(token) ==
    LET first == RoundDecodeFirst(token)
        second == IF first.k = "throw" THEN first ELSE RoundDecodeFirst(first.v)
    IN  IF second.k = "throw" THEN second ELSE RoundDecodeFirst(second.v)

\* rotatedSha .. atob(thirdRotate): three rounds, the first atob that throws
\* ending the call.
Unscramble(token) ==
    LET firstDecode == Round(token)
        secondDecode == IF firstDecode.k = "throw" THEN firstDecode
                        ELSE Round(firstDecode.v)
    IN  IF secondDecode.k = "throw" THEN secondDecode ELSE Round(secondDecode.v)

\* The secure token of the iframe: the meta content with its first "sha512-"
\* removed, undefined when the tag or the attribute is missing.
SecureToken(meta) ==
    IF meta.t = "string" THEN StrV(ReplaceFirst(meta.s, TokenPrefix, <<>>)) ELSE Undefined

\* `${decryptedData.uri || default}api.php`
ApiUrl(data) ==
    LET uri == JsonGet(data, <<117, 114, 105>>)
    IN  (IF Truthy(uri) THEN JsToString(uri) ELSE DefaultPlayerUri) \o ApiPhp

\* The POST to the player API built from decryptedData.
ApiRequest(data) ==
    Post(ApiUrl(data),
         JsToString(JsonGet(data, <<101, 110>>)),
         JsToString(JsonGet(data, <<105, 118>>)))

----------------------------------------------------------------------------
(* HentaiHaven.getInfo: the episodes of a series page *)

VARIABLES
    hiPc,       \* "idle", "fetch", "done"
    hiArgs,     \* the id and episodeSort arguments of the call
    hiReqs,     \* the URLs requested so far
    hiPage,     \* the series page received
    hiResult    \* how the call ended

hiVars == <<hiPc, hiArgs, hiReqs, hiPage, hiResult>>

MaxChapters == 3

\* !x for undefined, a string or a non-zero number.
Falsy(x) == x.t \in {"undefined", "null"} \/ (x.t = "string" /\ x.s = <<>>)

RECURSIVE SplitOn(_, _)
\* String.prototype.split with a one-character separator.
SplitOn(s, c) ==
    LET at == { i \in 1..Len(s) : s[i] = c }
    IN  IF at = {} THEN <<s>>
        ELSE LET i == CHOOSE k \in at : \A j \in at : k <= j
             IN  <<SubSeq(s, 1, i - 1)>> \o SplitOn(SubSeq(s, i + 1, Len(s)), c)

\* href?.split("/")[n]
HrefPart(href, n) ==
    IF href.t # "string" THEN Undefined
    ELSE LET parts == SplitOn(href.s, 47)
         IN  IF n + 1 <= Len(parts) THEN StrV(parts[n + 1]) ELSE Undefined

\* `${href?.split("/")[4]}/${href?.split("/")[5]}`
ChapterPath(href) ==
    JsToString(HrefPart(href, 4)) \o <<47>> \o JsToString(HrefPart(href, 5))

SortEpisodesKeepingOrder(episodes, sortOrder) == episodes

RECURSIVE sortEpisodes(_, _)
\* Array.prototype.sort with a.number - b.number for "ASC" and
\* b.number - a.number otherwise; stable.
sortEpisodes(episodes, sortOrder) ==
    IF episodes = <<>> THEN <<>>
    ELSE LET n == Len(episodes)
             last == episodes[n]
             sorted == sortEpisodes(SubSeq(episodes, 1, n - 1), sortOrder)
             before == Cardinality({ k \in 1..(n - 1) :
                           IF sortOrder = <<65, 83, 67>>
                           THEN sorted[k].number <= last.number
                           ELSE sorted[k].number >= last.number })
         IN  SubSeq(sorted, 1, before) \o <<last>> \o SubSeq(sorted, before + 1, n - 1)

\* The episodes with the scraped path itself as their id.
PushedEpisodesRawPath(chapters) ==
    [k \in 1..Len(chapters) |->
        [id |-> ChapterPath(chapters[k]), number |-> Len(chapters) - (k - 1)]]

\* The episodes pushed for the chapters of the page, in page order:
\* number = episodesLength - i, id = btoa of the chapter's path.
PushedEpisodes(chapters) ==
    [k \in 1..Len(chapters) |->
        [id |-> btoa(ChapterPath(chapters[k])).v,
         number |-> Len(chapters) - (k - 1)]]

\* episodeSort = "ASC" by default.
OrAsc(episodeSort) ==
    IF episodeSort.t = "undefined" THEN <<65, 83, 67>> ELSE episodeSort.s

\* What getInfo returns for a series page.
HentaiInfo(id, chapters, episodeSort) ==
    [id |-> id,
     totalEpisodes |-> Len(chapters),
     episodes |-> sortEpisodes(PushedEpisodes(chapters), OrAsc(episodeSort))]

NoInfo == [id |-> <<>>, totalEpisodes |-> 0, episodes |-> <<>>]

HIPending == [k |-> "pending", err |-> "", v |-> NoInfo]

HIReturn(v) == [k |-> "return", err |-> "", v |-> v]

HIThrow(e) == [k |-> "throw", err |-> e, v |-> NoInfo]

(***************************************************************************)
(* The callers and the upstream site.                                      *)
(***************************************************************************)

\* The ids tried: undefined, "" and "s".
HIIds == { Undefined, StrV(<<>>), StrV(<<115>>) }

\* episodeSort: left out, "ASC" or "DESC".
HISorts == { Undefined, StrV(<<65, 83, 67>>), StrV(<<68, 69, 83, 67>>) }

\* The href of a chapter's link: none, "https://h.x/watch/s/episode-1/",
\* "https://h.x/watch/s/episode-2/", the relative "/watch/s/e/", or
\* "https://h.x/watch/s/\u2019/", whose path btoa rejects.
ChapterHrefs ==
    { Undefined,
      StrV(<<104, 116, 116, 112, 115, 58, 47, 47, 104, 46, 120, 47, 119, 97, 116, 99,
             104, 47, 115, 47, 101, 112, 105, 115, 111, 100, 101, 45, 49, 47>>),
      StrV(<<104, 116, 116, 112, 115, 58, 47, 47, 104, 46, 120, 47, 119, 97, 116, 99,
             104, 47, 115, 47, 101, 112, 105, 115, 111, 100, 101, 45, 50, 47>>),
      StrV(<<47, 119, 97, 116, 99, 104, 47, 115, 47, 101, 47>>),
      StrV(<<104, 116, 116, 112, 115, 58, 47, 47, 104, 46, 120, 47, 119, 97, 116, 99,
             104, 47, 115, 47, 8217, 47>>) }

\* The pages upstream may send: an empty body, a "blocked" notice, or a
\* series page with its chapters.
HIPages ==
    { [kind |-> k, chapters |-> <<>>] : k \in {"empty", "blocked"} }
      \cup { [kind |-> "series", chapters |-> c] : c \in SeqUpTo(ChapterHrefs, MaxChapters) }

HINoPage == [kind |-> "none", chapters |-> <<>>]

InitHI ==
    /\ hiPc = "idle"
    /\ hiArgs = [id |-> NoValue, episodeSort |-> Undefined]
    /\ hiReqs = <<>>
    /\ hiPage = HINoPage
    /\ hiResult = HIPending

\* getInfo(id, episodeSort) up to its await: the check of the id and the
\* request for the series page.
HIGetInfo ==
    /\ hiPc = "idle"
    /\ client.kind = "HentaiHaven"
    /\ \E id \in HIIds, episodeSort \in HISorts :
        /\ hiArgs' = [id |-> id, episodeSort |-> episodeSort]
        /\ IF Falsy(id) THEN
               /\ hiPc' = "done"
               /\ hiResult' = HIThrow("Error: Id is required")
               /\ UNCHANGED hiReqs
           ELSE
               /\ hiReqs' = Append(hiReqs, client.BASE_URL \o WatchPath \o id.s)
               /\ hiPc' = "fetch"
               /\ UNCHANGED hiResult
    /\ UNCHANGED <<hiPage, client>>

\* The series page arrives (or the fetch fails): the checks of the body,
\* the chapters, the sort and the return.
HIResponse ==
    /\ hiPc = "fetch"
    /\ hiPc' = "done"
    /\ \/ hiResult' = HIThrow("TypeError: fetch failed") /\ UNCHANGED hiPage
       \/ \E page \in HIPages :
            /\ hiPage' = page
            /\ hiResult' =
                   IF page.kind = "empty" THEN HIThrow("Error: Error fetching data")
                   ELSE IF page.kind = "blocked" THEN HIThrow("Error: The webpage is blocked.")
                   ELSE IF \E k \in 1..Len(page.chapters) :
                               btoa(ChapterPath(page.chapters[k])).k = "throw"
                        THEN HIThrow("InvalidCharacterError")
                   ELSE HIReturn(HentaiInfo(hiArgs.id.s, page.chapters,
                                            hiArgs.episodeSort))
    /\ UNCHANGED <<hiArgs, hiReqs, client>>

\* The episode ids the last getInfo call returned.
HIEmittedIds ==
    IF hiResult.k # "return" THEN {}
    ELSE { StrV(hiResult.v.episodes[k].id) : k \in 1..Len(hiResult.v.episodes) }

----------------------------------------------------------------------------
(* HentaiHaven.getEpisode: the upstream site and the call *)

(***************************************************************************)
(* The upstream site.  It scrambles a payload text three times, each round *)
(* base64 encoding and then substituting, and prefixes "sha512-".          *)
(***************************************************************************)
Scramble(text) == Rot13Str(btoa(text).v)

SiteToken(text) == TokenPrefix \o Scramble(Scramble(Scramble(text)))

Absent == [t |-> "absent", s |-> <<>>]

Member(name, x) ==
    IF x.t = "absent" THEN <<>> ELSE << <<34>> \o name \o <<34, 58, 34>> \o x.s \o <<34>> >>

RECURSIVE JoinComma(_)
JoinComma(parts) ==
    IF parts = <<>> THEN <<>>
    ELSE IF Len(parts) = 1 THEN parts[1]
    ELSE parts[1] \o <<44>> \o JoinComma(Tail(parts))

\* The JSON text of a payload record; an absent field is left out.
RecordText(en, iv, uri) ==
    <<123>> \o JoinComma(Member(<<101, 110>>, en) \o Member(<<105, 118>>, iv)
                            \o Member(<<117, 114, 105>>, uri)) \o <<125>>

\* Payload records with every combination of present and absent fields
\* (en "k", iv "v", uri "u/" or the empty string).
RecordTexts ==
    { RecordText(en, iv, uri) :
        en \in {Absent, StrV(<<107>>)},
        iv \in {Absent, StrV(<<118>>)},
        uri \in {Absent, StrV(<<>>), StrV(<<117, 47>>)} }

\* JSON texts that are no record: null, [], "s", true, and a record whose
\* text is cut short.
OtherTexts ==
    { <<110, 117, 108, 108>>, <<91, 93>>, <<34, 115, 34>>, <<116, 114, 117, 101>>,
      <<123, 34, 101, 110, 34, 58>> }

\* Short raw texts over "1", "{", "}", space and e-acute: among them the
\* number 1, the empty record {} and the empty text.
RawTexts == SeqUpTo({49, 123, 125, 32, 233}, MaxPayloadLen)

PayloadTexts == RecordTexts \cup OtherTexts \cup RawTexts

\* Texts atob rejects: a character outside the alphabet, a length of 4k+1.
MalformedTexts == { <<33>>, <<89, 81, 61, 61, 61>>, <<89, 42, 81, 61>> }

\* What the meta tag may hold: nothing, a token of the site, the same
\* without its prefix, the bare prefix, and tokens that turn out malformed
\* in round 1, 2 or 3.
MetaContents ==
    {Undefined, StrV(TokenPrefix), StrV(<<>>)}
        \cup { StrV(SiteToken(text)) : text \in PayloadTexts }
        \cup { StrV(Scramble(Scramble(Scramble(RecordText(StrV(<<107>>), StrV(<<118>>), Absent))))) }
        \cup { StrV(TokenPrefix \o bad) : bad \in MalformedTexts }
        \cup { StrV(TokenPrefix \o Scramble(bad)) : bad \in MalformedTexts }
        \cup { StrV(TokenPrefix \o Scramble(Scramble(bad))) : bad \in MalformedTexts }

\* Ids: undefined, "", a raw path "a/episode-1", "episode-" alone, the
\* encoding of "a/episode-1", the encoding of "a/b", and "!" (no base64
\* text).
HHIds ==
    { Undefined, StrV(<<>>), StrV(<<97, 47>> \o EpisodeMark \o <<49>>), StrV(EpisodeMark),
      StrV(btoa(<<97, 47>> \o EpisodeMark \o <<49>>).v), StrV(btoa(<<97, 47, 98>>).v),
      StrV(<<33>>) }

\* The iframe address the episode page may carry: none, or "https://p.x/f".
IframeSrcs == { Undefined, StrV(<<104, 116, 116, 112, 115, 58, 47, 47, 112, 46, 120, 47, 102>>) }

\* The bodies the player API may answer with.
ApiBodies == { "sources", "no data", "not json" }

InitHH ==
    /\ hhPc = "idle"
    /\ hhId = NoValue
    /\ hhReqs = <<>>
    /\ hhMeta = NoValue
    /\ hhUnscrambled = Pending
    /\ hhData = JValue("none", <<>>, <<>>)
    /\ hhResult = Pending

HHFail(err) ==
    /\ hhPc' = "done"
    /\ hhResult' = Throw(err)

\* getEpisode(id) up to its first await: the checks of the id, atob(id) and
\* the request for the episode page.
HHGetEpisode ==
    /\ hhPc = "idle"
    /\ client.kind = "HentaiHaven"
    /\ \E id \in HHIds \cup HIEmittedIds :
        /\ hhId' = id
        /\ IF id.t # "string" \/ id.s = <<>> THEN
               HHFail("TypeError: Invalid identifier") /\ UNCHANGED hhReqs
           ELSE IF Includes(id.s, EpisodeMark) THEN
               HHFail("Error: The Episode ID must be encoded.") /\ UNCHANGED hhReqs
           ELSE IF atob(id.s).k = "throw" THEN
               HHFail(atob(id.s).err) /\ UNCHANGED hhReqs
           ELSE
               /\ hhReqs' = Append(hhReqs, Get(client.BASE_URL \o WatchPath \o atob(id.s).v))
               /\ hhPc' = "page"
               /\ UNCHANGED hhResult
    /\ UNCHANGED <<hhMeta, hhUnscrambled, hhData, client>>

\* The episode page arrives (or its fetch fails): the iframe's address is
\* read and requested.
HHPageResponse ==
    /\ hhPc = "page"
    /\ \/ HHFail("TypeError: fetch failed") /\ UNCHANGED hhReqs
       \/ \E iframeSrc \in IframeSrcs :
            /\ hhReqs' = Append(hhReqs, Get(OrEmpty(iframeSrc)))
            /\ hhPc' = "iframe"
            /\ UNCHANGED hhResult
    /\ UNCHANGED <<hhId, hhMeta, hhUnscrambled, hhData, client>>

\* The iframe page arrives (or its fetch fails): the token is read,
\* unscrambled and parsed, and the player API is requested.
HHIframeResponse ==
    /\ hhPc = "iframe"
    /\ \/ HHFail("TypeError: fetch failed") /\ UNCHANGED <<hhReqs, hhMeta, hhUnscrambled, hhData>>
       \/ \E meta \in MetaContents :
            LET text == Unscramble(OrEmpty(SecureToken(meta)))
                parsed == JsonParse(text.v)
            IN  /\ hhMeta' = meta
                /\ hhUnscrambled' = text
                /\ IF text.k = "throw" THEN
                       HHFail(text.err) /\ UNCHANGED <<hhReqs, hhData>>
                   ELSE IF parsed.k = "throw" THEN
                       HHFail(parsed.err) /\ UNCHANGED <<hhReqs, hhData>>
                   ELSE IF parsed.v.t = "null" THEN
                       /\ HHFail("TypeError: cannot read properties of null")
                       /\ hhData' = parsed.v
                       /\ UNCHANGED hhReqs
                   ELSE
                       /\ hhData' = parsed.v
                       /\ hhReqs' = Append(hhReqs, ApiRequest(parsed.v))
                       /\ hhPc' = "api"
                       /\ UNCHANGED hhResult
    /\ UNCHANGED <<hhId, client>>

\* The player API answers (or its fetch fails): sources and thumbnail are
\* returned.
HHApiResponse ==
    /\ hhPc = "api"
    /\ \/ HHFail("TypeError: fetch failed")
       \/ \E body \in ApiBodies :
            /\ hhPc' = "done"
            /\ hhResult' = CASE body = "sources" -> Return(<<"sources", "thumbnail">>)
                             [] body = "no data" -> Throw("TypeError: cannot read properties of undefined")
                             [] body = "not json" -> Throw("SyntaxError")
    /\ UNCHANGED <<hhId, hhReqs, hhMeta, hhUnscrambled, hhData, client>>

----------------------------------------------------------------------------
(* Rule34.search *)

VARIABLES
    r34Pc,      \* "idle", "fetch" (awaiting the listing page), "done"
    r34Args,    \* the arguments of the call: query, page, perPage
    r34Reqs,    \* the listing requests issued so far: tags and pid of each URL
    r34Page,    \* what the listing page held: its items and the pager's last href
    r34Ok,      \* whether the status of the response was a success
    r34Result   \* how the call ended: the returned record, or the error thrown

r34Vars == <<r34Pc, r34Args, r34Reqs, r34Page, r34Ok, r34Result>>

\* Largest page argument.
MaxPage == 4

\* Largest perPage argument besides the default 10 and the site's 20.
MaxPerPage == 3

\* Largest number of items on a listing page.
MaxItems == 2

\* Largest pid of a pager link besides 20, 40 and 42.
MaxPid == 4

(***************************************************************************)
(* A JavaScript number is NaN or a fraction n/d in lowest terms, d > 0.    *)
(* The quotients and products of the pagination are exact here; where the  *)
(* quotient is not a whole number, IEEE 754 rounds what the program holds  *)
(* by at most a few units in the last place.                               *)
(***************************************************************************)
Abs(n) == IF n < 0 THEN -n ELSE n

RECURSIVE Gcd(_, _)
Gcd(a, b) == IF b = 0 THEN a ELSE Gcd(b, a % b)

Rat(n, d) == LET g == Gcd(Abs(n), d) IN [nan |-> FALSE, n |-> n \div g, d |-> d \div g]

NaN == [nan |-> TRUE, n |-> 0, d |-> 1]

Whole(k) == [nan |-> FALSE, n |-> k, d |-> 1]

\* x / k, x + k and x * k for a whole k (k > 0 in the division).
NumDiv(x, k) == IF x.nan THEN NaN ELSE Rat(x.n, x.d * k)

NumAdd(x, k) == IF x.nan THEN NaN ELSE Rat(x.n + k * x.d, x.d)

NumMul(x, k) == IF x.nan THEN NaN ELSE Rat(x.n * k, x.d)

\* i < x for a whole i: false when x is NaN.
LessThan(i, x) == ~x.nan /\ i * x.d < x.n

RECURSIVE DigitsValue(_)
DigitsValue(s) ==
    IF s = <<>> THEN 0
    ELSE DigitsValue(SubSeq(s, 1, Len(s) - 1)) * 10 + (s[Len(s)] - 48)

\* White space and line terminators that parseInt skips.
IsJsWhite(c) == c \in {9, 10, 11, 12, 13, 32, 160}

\* Number.parseInt(text, 10): leading white space, a sign, then the longest
\* run of digits; NaN when there is no digit.
ParseInt(text) ==
    LET start == CHOOSE j \in 1..(Len(text) + 1) :
                     /\ \A k \in 1..(j - 1) : IsJsWhite(text[k])
                     /\ j = Len(text) + 1 \/ ~IsJsWhite(text[j])
        signed == start <= Len(text) /\ text[start] \in {43, 45}
        d == IF signed THEN start + 1 ELSE start
        end == CHOOSE j \in d..(Len(text) + 1) :
                   /\ \A k \in d..(j - 1) : IsDigit(text[k])
                   /\ j = Len(text) + 1 \/ ~IsDigit(text[j])
        value == DigitsValue(SubSeq(text, d, end - 1))
    IN  IF end = d THEN NaN
        ELSE Whole(IF signed /\ text[start] = 45 THEN -value ELSE value)

\* "pid="
PidKey == <<112, 105, 100, 61>>

\* href?.split("pid=")[1]: the text between the first "pid=" and the next
\* one (or the end); undefined without an href or without "pid=" in it.
SplitSecond(href, sep) ==
    IF href.t # "string" \/ IndexOf(href.s, sep) = 0 THEN Undefined
    ELSE LET rest == SubSeq(href.s, IndexOf(href.s, sep) + Len(sep), Len(href.s))
             j == IndexOf(rest, sep)
         IN  StrV(IF j = 0 THEN rest ELSE SubSeq(rest, 1, j - 1))

\* x || "1" for a string or undefined x.
OrOne(x) == IF x.t = "string" /\ x.s # <<>> THEN x.s ELSE <<49>>

TotalPagesNoPlusOne(href, perPage) ==
    NumDiv(ParseInt(OrOne(SplitSecond(href, PidKey))), perPage)

\* totalPages: parseInt of the pager's pid (of "1" without one), divided by
\* perPage, plus 1.
TotalPages(href, perPage) ==
    NumAdd(NumDiv(ParseInt(OrOne(SplitSecond(href, PidKey))), perPage), 1)

NoResult ==
    [total |-> NaN, next |-> 0, previous |-> 0, pages |-> NaN, page |-> 0,
     hasNextPage |-> FALSE, results |-> 0]

SearchResultPageNumbers(page, perPage, items, href) ==
    LET totalPages == TotalPages(href, perPage)
        hasNext == LessThan(page, totalPages)
    IN  [total |-> NumMul(totalPages, perPage),
         next |-> IF hasNext THEN page + 1 ELSE 0,
         previous |-> IF page > 1 THEN page - 1 ELSE 0,
         pages |-> totalPages,
         page |-> page,
         hasNextPage |-> hasNext,
         results |-> items]

\* The record search returns for its arguments and a listing page; results
\* is the number of listing entries.
SearchResult(page, perPage, items, href) ==
    LET totalPages == TotalPages(href, perPage)
        currentPage == page
        hasNext == LessThan(currentPage, totalPages)
        hasPrevious == currentPage > 1
    IN  [total |-> NumMul(totalPages, perPage),
         next |-> IF hasNext THEN (currentPage + 1) * perPage ELSE 0,
         previous |-> IF hasPrevious THEN (currentPage - 1) * perPage ELSE 0,
         pages |-> totalPages,
         page |-> currentPage,
         hasNextPage |-> hasNext,
         results |-> items]

R34Return(v) == [k |-> "return", err |-> "", v |-> v]

R34Throw(e) == [k |-> "throw", err |-> e, v |-> NoResult]

(***************************************************************************)
(* The callers and the upstream site.                                      *)
(***************************************************************************)
R34Queries == { Undefined, StrV(<<>>), StrV(<<97>>) }

PageArgs == (-1)..MaxPage

PerPageArgs == 1..MaxPerPage \cup {10, 20}

RECURSIVE Decimal(_)
Decimal(k) == IF k < 10 THEN <<48 + k>> ELSE Decimal(k \div 10) \o <<48 + (k % 10)>>

\* "?page=post&s=list&tags=a"
ListingHref ==
    <<63, 112, 97, 103, 101, 61, 112, 111, 115, 116, 38, 115, 61, 108, 105, 115,
      116, 38, 116, 97, 103, 115, 61, 97>>

\* The pager's last link for offset k.
HrefFor(k) == StrV(ListingHref \o <<38>> \o PidKey \o Decimal(k))

Pids == 0..MaxPid \cup {20, 40, 42}

\* Texts after "pid=" that are no number: "abc", "x4".
NonNumericTexts == { <<97, 98, 99>>, <<120, 52>> }

\* Other texts after "pid=": none, "4x", " 40", "-20", "20&pid=40".
OddTexts == { <<>>, <<52, 120>>, <<32, 52, 48>>, <<45, 50, 48>>,
              <<50, 48, 38>> \o PidKey \o <<52, 48>> }

\* What the pager's last link may be: missing, a link without pid, a link
\* for an offset, and links with other text after "pid=".
Hrefs ==
    { Undefined, StrV(ListingHref) }
        \cup { HrefFor(k) : k \in Pids }
        \cup { StrV(ListingHref \o <<38>> \o PidKey \o text) : text \in NonNumericTexts \cup OddTexts }

InitR34 ==
    /\ r34Pc = "idle"
    /\ r34Args = [query |-> NoValue, page |-> 1, perPage |-> 10]
    /\ r34Reqs = <<>>
    /\ r34Page = [items |-> 0, href |-> NoValue]
    /\ r34Ok = TRUE
    /\ r34Result = [k |-> "pending", err |-> "", v |-> NoResult]

\* The offset requested for a page: pid=${(page - 1) * perPage}.
PidOf(page, perPage) == (page - 1) * perPage

\* search(query, page, perPage) up to its await: the check of the query and
\* the request for the listing at pid = (page - 1) * perPage.
R34Search ==
    /\ r34Pc = "idle"
    /\ client.kind = "Rule34"
    /\ \E query \in R34Queries, page \in PageArgs, perPage \in PerPageArgs :
        /\ r34Args' = [query |-> query, page |-> page, perPage |-> perPage]
        /\ IF query.t # "string" \/ query.s = <<>> THEN
               /\ r34Pc' = "done"
               /\ r34Result' = R34Throw("TypeError: Query invalid")
               /\ UNCHANGED r34Reqs
           ELSE
               /\ r34Reqs' = Append(r34Reqs, [tags |-> query.s, pid |-> PidOf(page, perPage)])
               /\ r34Pc' = "fetch"
               /\ UNCHANGED r34Result
    /\ UNCHANGED <<r34Page, r34Ok, client>>

\* The listing page arrives (or its fetch fails): whatever its status, the
\* entries and the pager are read and the record is returned.
R34Response ==
    /\ r34Pc = "fetch"
    /\ r34Pc' = "done"
    /\ \/ r34Result' = R34Throw("TypeError: fetch failed") /\ UNCHANGED <<r34Page, r34Ok>>
       \/ \E items \in 0..MaxItems, href \in Hrefs, ok \in BOOLEAN :
            /\ r34Page' = [items |-> items, href |-> href]
            /\ r34Ok' = ok
            /\ r34Result' = R34Return(SearchResult(r34Args.page, r34Args.perPage, items, href))
    /\ UNCHANGED <<r34Args, r34Reqs, client>>

----------------------------------------------------------------------------
(* HAnime.search *)

VARIABLES
    haPc,        \* "idle", "fetch" (awaiting the search response), "done"
    haArgs,      \* the arguments of the call: query, page, perPage
    haReqs,      \* the POST requests issued so far
    haResponse,  \* what the search service answered
    haResult     \* how the call ended: the returned record, or the error thrown

haVars == <<haPc, haArgs, haReqs, haResponse, haResult>>

\* Largest nbHits of a response, and largest number of hits it carries.
MaxHits == 5

\* String.prototype.trim.
Trim(s) ==
    LET inner == { i \in 1..Len(s) : ~IsJsWhite(s[i]) }
    IN  IF inner = {} THEN <<>>
        ELSE SubSeq(s, CHOOSE i \in inner : \A j \in inner : i <= j,
                       CHOOSE i \in inner : \A j \in inner : j <= i)

\* A number or undefined, as the next and previous of a result.
Num(n) == [def |-> TRUE, n |-> n]

NoNum == [def |-> FALSE, n |-> 0]

Max(a, b) == IF a >= b THEN a ELSE b

Min(a, b) == IF a <= b THEN a ELSE b

\* Math.ceil(a / b) for whole a >= 0 and b >= 1.
CeilDiv(a, b) == (a + b - 1) \div b

\* validPage and validPerPage.
ValidPage(page) == IF page < 1 THEN 1 ELSE page

ValidPerPage(perPage) == IF perPage < 1 THEN 10 ELSE perPage

\* The record returned when the response has no hit list.
NoHitsResult(page) ==
    [results |-> 0, total |-> 0, page |-> page, pages |-> 0,
     previous |-> NoNum, next |-> NoNum, hasNextPage |-> FALSE]

\* The record returned for a response with hits entries and the count
\* nbHits (0 when absent); results is the number of entries of the slice.
PageResult(page, perPage, hits, nbHits) ==
    LET validPage == ValidPage(page)
        validPerPage == ValidPerPage(perPage)
        totalResults == nbHits
        totalPages == Max(1, CeilDiv(totalResults, validPerPage))
        finalPage == Min(Max(1, validPage), totalPages)
        startIndex == (finalPage - 1) * validPerPage
        endIndex == Min(startIndex + validPerPage, hits)
    IN  [results |-> Max(0, endIndex - Min(startIndex, hits)),
         total |-> totalResults,
         page |-> finalPage,
         pages |-> totalPages,
         previous |-> IF finalPage > 1 THEN Num(finalPage - 1) ELSE NoNum,
         next |-> IF finalPage < totalPages THEN Num(finalPage + 1) ELSE NoNum,
         hasNextPage |-> finalPage < totalPages]

HAPending == [k |-> "pending", err |-> "", v |-> NoHitsResult(0)]

HAReturn(v) == [k |-> "return", err |-> "", v |-> v]

HAThrow(e) == [k |-> "throw", err |-> e, v |-> NoHitsResult(0)]

\* The catch of search: every error of the try block is wrapped.
HAWrapped(message) == HAThrow("Error: Failed to search HAnime: " \o message)

(***************************************************************************)
(* The callers and the search service.                                     *)
(***************************************************************************)
\* Queries: undefined, "", "a", " a " and a number.
HAQueries == { Undefined, StrV(<<>>), StrV(<<97>>), StrV(<<32, 97, 32>>),
               [t |-> "number", s |-> <<>>] }

HAPerPageArgs == {-1, 0} \cup 1..MaxPerPage \cup {10}

\* What the service may answer: a status, and a body that is no JSON, or
\* JSON with or without a hit list and with or without nbHits; a hit may
\* carry tags that are no JSON.
HANoResponse == [ok |-> FALSE, json |-> FALSE, hits |-> -1, nbHits |-> -1, badHit |-> FALSE]

HAResponses ==
    { [ok |-> ok, json |-> FALSE, hits |-> -1, nbHits |-> -1, badHit |-> FALSE] :
          ok \in BOOLEAN }
      \cup [ok : BOOLEAN, json : {TRUE}, hits : (-1)..MaxHits,
            nbHits : (-1)..MaxHits, badHit : {FALSE}]
      \cup [ok : {TRUE}, json : {TRUE}, hits : 1..MaxHits,
            nbHits : 0..MaxHits, badHit : {TRUE}]

InitHA ==
    /\ haPc = "idle"
    /\ haArgs = [query |-> NoValue, page |-> 1, perPage |-> 10]
    /\ haReqs = <<>>
    /\ haResponse = HANoResponse
    /\ haResult = HAPending

\* search(query, page, perPage) up to its await: the check of the query and
\* the POST of page validPage - 1 with the trimmed query.
HASearch ==
    /\ haPc = "idle"
    /\ client.kind = "HAnime"
    /\ \E query \in HAQueries, page \in PageArgs, perPage \in HAPerPageArgs :
        /\ haArgs' = [query |-> query, page |-> page, perPage |-> perPage]
        /\ IF query.t \in {"undefined", "null"} \/ query = StrV(<<>>) THEN
               /\ haPc' = "done"
               /\ haResult' = HAThrow("Error: Search query cannot be empty")
               /\ UNCHANGED haReqs
           ELSE IF query.t # "string" THEN
               /\ haPc' = "done"
               /\ haResult' = HAWrapped("query.trim is not a function")
               /\ UNCHANGED haReqs
           ELSE
               /\ haReqs' = Append(haReqs, [url |-> client.SEARCH_URL,
                                            page |-> ValidPage(page) - 1,
                                            search_text |-> Trim(query.s)])
               /\ haPc' = "fetch"
               /\ UNCHANGED haResult
    /\ UNCHANGED <<haResponse, client>>

\* The outcome of search for a response.
HAOutcome(page, perPage, r) ==
    IF ~r.ok THEN HAWrapped("Search request failed with status")
    ELSE IF ~r.json THEN HAWrapped("SyntaxError")
    ELSE IF r.hits = -1 THEN HAReturn(NoHitsResult(page))
    ELSE IF r.badHit THEN HAWrapped("Failed to parse search results")
    ELSE HAReturn(PageResult(page, perPage, r.hits, IF r.nbHits = -1 THEN 0 ELSE r.nbHits))

\* The response arrives (or the fetch fails) and search ends.
HAResponse ==
    /\ haPc = "fetch"
    /\ haPc' = "done"
    /\ \/ haResult' = HAWrapped("fetch failed") /\ UNCHANGED haResponse
       \/ \E r \in HAResponses :
            /\ haResponse' = r
            /\ haResult' = HAOutcome(haArgs.page, haArgs.perPage, r)
    /\ UNCHANGED <<haArgs, haReqs, client>>

----------------------------------------------------------------------------
(* normalize and getNumberFromString *)

VARIABLES
    normInput,   \* the value normalize is called with
    normResult   \* the outcome of the call, Pending before it

normVars == <<normInput, normResult>>

\* /\s/ on the characters below 256.
IsRegexSpace(c) == c \in {9, 10, 11, 12, 13, 32, 160}

\* str.replace(/[^a-zA-Z\s]/g, " ")
BlankNonLetters(s) ==
    [i \in 1..Len(s) |-> IF IsAsciiLetter(s[i]) \/ IsRegexSpace(s[i]) THEN s[i] ELSE 32]

\* toLowerCase on letters and white space.
ToLowerCase(s) == [i \in 1..Len(s) |-> IF s[i] \in 65..90 THEN s[i] + 32 ELSE s[i]]

\* The length of the run of white space at the start of s.
LeadingSpaces(s) ==
    CHOOSE n \in 0..Len(s) :
        /\ \A k \in 1..n : IsRegexSpace(s[k])
        /\ n = Len(s) \/ ~IsRegexSpace(s[n + 1])

\* replace(/\s{2,}/g, " "): every maximal run of two or more white space
\* characters becomes one space; a single one stays as it is.
RECURSIVE CollapseSpaces(_)
CollapseSpaces(s) ==
    IF s = <<>> THEN <<>>
    ELSE LET n == LeadingSpaces(s)
         IN  IF n >= 2 THEN <<32>> \o CollapseSpaces(SubSeq(s, n + 1, Len(s)))
             ELSE <<s[1]>> \o CollapseSpaces(Tail(s))

\* replaceAll(w, r) for a non-empty w.
RECURSIVE ReplaceAll(_, _, _)
ReplaceAll(s, w, r) ==
    LET i == IndexOf(s, w)
    IN  IF i = 0 THEN s
        ELSE SubSeq(s, 1, i - 1) \o r \o ReplaceAll(SubSeq(s, i + Len(w), Len(s)), w, r)

\* "episode"
EpisodeWord == <<101, 112, 105, 115, 111, 100, 101>>

\* normalize on a string.
NormalizeStr(s) ==
    IF Trim(s) = <<>> THEN s
    ELSE ReplaceAll(CollapseSpaces(ToLowerCase(BlankNonLetters(s))), EpisodeWord, <<>>)

normalize(x) ==
    IF x.t # "string" THEN Throw("TypeError") ELSE Return(NormalizeStr(x.s))

\* str.match(/\d+/g)[0]: the first maximal run of digits, <<>> without one.
FirstDigits(s) ==
    LET at == { i \in 1..Len(s) : IsDigit(s[i]) }
    IN  IF at = {} THEN <<>>
        ELSE LET first == CHOOSE i \in at : \A j \in at : i <= j
                 last == CHOOSE j \in first..Len(s) :
                             /\ \A k \in first..j : IsDigit(s[k])
                             /\ j = Len(s) \/ ~IsDigit(s[j + 1])
             IN  SubSeq(s, first, last)

\* getNumberFromString on a string: the number, or null.
getNumberFromString(s) ==
    IF Trim(s) = <<>> \/ FirstDigits(s) = <<>> THEN NoNum
    ELSE Num(DigitsValue(FirstDigits(s)))

\* "Hello World! 123" and "Just TEXT! @#$%^&*()"
HelloExample ==
    <<72, 101, 108, 108, 111, 32, 87, 111, 114, 108, 100, 33, 32, 49, 50, 51>>

JustTextExample ==
    <<74, 117, 115, 116, 32, 84, 69, 88, 84, 33, 32, 64, 35, 36, 37, 94, 38, 42, 40, 41>>

\* The characters of the enumerated inputs: a, E, space, tab, 1, !.
NormChars == {97, 69, 32, 9, 49, 33}

\* "a episode b" and "Episode"
NormWords == { <<97, 32, 101, 112, 105, 115, 111, 100, 101, 32, 98>>,
               <<69, 112, 105, 115, 111, 100, 101>> }

NormInputs ==
    NonStrings
        \cup { StrV(s) : s \in SeqUpTo(NormChars, MaxStrLen) }
        \cup { StrV(s) : s \in {HelloExample, JustTextExample} \cup NormWords }

InitNorm ==
    /\ normInput \in NormInputs
    /\ normResult = Pending

NormalizeCall ==
    /\ normResult = Pending
    /\ normResult' = normalize(normInput)
    /\ UNCHANGED normInput

----------------------------------------------------------------------------
(* HentaiStream.getInfo *)

VARIABLES
    hsPc,       \* "idle", "search", "details" (awaiting Promise.all), "done"
    hsId,       \* the argument of the call
    hsReqs,     \* the URLs requested so far, in the order of the requests
    hsPage,     \* the search response: its status and its posts
    hsMatching, \* matchingResults: the posts whose title matches the id
    hsInfo,     \* per matching result: the detail response, or pending
    hsSettled,  \* the matching results whose detail request has completed,
                \* in the order of completion
    hsResult    \* how the call ended: the record or null, or the error

hsVars == <<hsPc, hsId, hsReqs, hsPage, hsMatching, hsInfo, hsSettled,
           hsResult>>

\* Largest number of posts on a search page.
MaxResults == 3

\* "0123456789ABCDEF"
HexDigits == <<48, 49, 50, 51, 52, 53, 54, 55, 56, 57, 65, 66, 67, 68, 69, 70>>

PercentByte(b) == <<37, HexDigits[(b \div 16) + 1], HexDigits[(b % 16) + 1]>>

\* The characters encodeURIComponent leaves alone: letters, digits and
\* - _ . ! ~ * ' ( )
IsUriUnreserved(c) ==
    IsAsciiLetter(c) \/ IsDigit(c) \/ c \in {45, 95, 46, 33, 126, 42, 39, 40, 41}

\* encodeURIComponent on characters below 256: the bytes of the UTF-8
\* encoding of every other character, each as %XX.
RECURSIVE EncodeURIComponent(_)
EncodeURIComponent(s) ==
    IF s = <<>> THEN <<>>
    ELSE (IF IsUriUnreserved(s[1]) THEN <<s[1]>>
          ELSE IF s[1] < 128 THEN PercentByte(s[1])
          ELSE PercentByte(192 + (s[1] \div 64)) \o PercentByte(128 + (s[1] % 64)))
             \o EncodeURIComponent(Tail(s))

\* `${BASE_URL}/?s=${encodeURIComponent(query)}`
HSSearchUrl(base, query) == base \o <<47, 63, 115, 61>> \o EncodeURIComponent(query)

\* `${BASE_URL}/${id}`
HSEpisodeUrl(base, id) == base \o <<47>> \o id

MatchingResultsRawTitle(found, normalizedId) ==
    SelectSeq(found, LAMBDA result : Includes(result.title, normalizedId))

\* The search results whose normalized title contains the normalized id.
MatchingResults(found, normalizedId) ==
    SelectSeq(found, LAMBDA result : Includes(NormalizeStr(result.title), normalizedId))

\* a.episodeNumber || 0
NumberOrZero(number) == IF number.def THEN number.n ELSE 0

\* Array.prototype.sort with (a, b) => (a.episodeNumber || 0) -
\* (b.episodeNumber || 0): ascending, and stable (ECMAScript 2019).
RECURSIVE SortByNumber(_)
SortByNumber(episodes) ==
    IF episodes = <<>> THEN <<>>
    ELSE LET n == Len(episodes)
             last == episodes[n]
             sorted == SortByNumber(SubSeq(episodes, 1, n - 1))
             before == Cardinality({ k \in 1..(n - 1) :
                           NumberOrZero(sorted[k].number) <= NumberOrZero(last.number) })
         IN  SubSeq(sorted, 1, before) \o <<last>> \o SubSeq(sorted, before + 1, n - 1)

RECURSIVE SumViews(_)
SumViews(episodes) ==
    IF episodes = <<>> THEN 0 ELSE episodes[1].views + SumViews(Tail(episodes))

\* charAt(0).toUpperCase() + slice(1), trimmed.
Capitalized(s) ==
    Trim([i \in 1..Len(s) |-> IF i = 1 /\ s[i] \in 97..122 THEN s[i] - 32 ELSE s[i]])

HSNull == [null |-> TRUE, title |-> <<>>, views |-> 0, episodes |-> <<>>]

\* The merged entries in completion order instead of the order of the
\* matching results.
JoinedInCompletionOrder(matching, info, settled) ==
    [k \in 1..Len(matching) |->
        [id |-> matching[settled[k]].id,
         number |-> getNumberFromString(matching[settled[k]].title),
         views |-> info[settled[k]].views]]

\* What Promise.all resolves to: per matching result, in the order of the
\* matching results, the result merged with its own episode info and its
\* episode number.
Joined(matching, info, settled) ==
    [i \in 1..Len(matching) |->
        [id |-> matching[i].id,
         number |-> getNumberFromString(matching[i].title),
         views |-> info[i].views]]

\* The record getInfo returns once every detail request has completed.
AnimeInfo(normalizedId, matching, info, settled) ==
    LET episodes == SortByNumber(Joined(matching, info, settled))
    IN  [null |-> FALSE,
         title |-> Capitalized(normalizedId),
         views |-> CeilDiv(SumViews(episodes), Len(episodes)),
         episodes |-> [k \in 1..Len(episodes) |->
                          [id |-> btoa(episodes[k].id).v,
                           number |-> episodes[k].number,
                           views |-> episodes[k].views]]]

HSPending == [k |-> "pending", err |-> "", v |-> HSNull]

HSReturn(v) == [k |-> "return", err |-> "", v |-> v]

HSThrow(e) == [k |-> "throw", err |-> e, v |-> HSNull]

(***************************************************************************)
(* The callers and the upstream site.                                      *)
(***************************************************************************)
\* Ids: undefined, "", "ab", "AB 1", "zz" and "episode".
HSIds == { Undefined, StrV(<<>>), StrV(<<97, 98>>), StrV(<<65, 66, 32, 49>>),
           StrV(<<122, 122>>), StrV(<<101, 112, 105, 115, 111, 100, 101>>) }

\* The posts of the site: "Ab 2", "ab 1", "ab 01", "ab" (no number),
\* "cd 1", and "ab 3" whose link has no href.
Posts ==
    { [id |-> <<101, 50>>, title |-> <<65, 98, 32, 50>>],
      [id |-> <<101, 49>>, title |-> <<97, 98, 32, 49>>],
      [id |-> <<101, 51>>, title |-> <<97, 98, 32, 48, 49>>],
      [id |-> <<101, 48>>, title |-> <<97, 98>>],
      [id |-> <<120>>, title |-> <<99, 100, 32, 49>>],
      [id |-> <<>>, title |-> <<97, 98, 32, 51>>] }

\* A search page lists each post at most once.
SearchPages ==
    { posts \in SeqUpTo(Posts, MaxResults) :
          \A i, j \in 1..Len(posts) : posts[i] = posts[j] => i = j }

\* No search response yet.
HSNoPage == [received |-> FALSE, ok |-> FALSE, posts |-> <<>>]

\* A detail response that can be read: its status and the views it shows.
DetailPages == { [ok |-> TRUE, views |-> 1], [ok |-> FALSE, views |-> 2] }

DetailPending == [ok |-> FALSE, views |-> 0]

\* A detail request whose fetch or parse failed.
DetailFailed == [ok |-> FALSE, views |-> -1]

InitHS ==
    /\ hsPc = "idle"
    /\ hsId = NoValue
    /\ hsReqs = <<>>
    /\ hsPage = HSNoPage
    /\ hsMatching = <<>>
    /\ hsInfo = <<>>
    /\ hsSettled = <<>>
    /\ hsResult = HSPending

\* getInfo(id) up to the await of search: the check of the id, normalize,
\* the check of the query in search and the search request.
HSGetInfo ==
    /\ hsPc = "idle"
    /\ client.kind = "HentaiStream"
    /\ \E id \in HSIds :
        /\ hsId' = id
        /\ IF id.t # "string" \/ id.s = <<>> THEN
               /\ hsPc' = "done"
               /\ hsResult' = HSThrow("TypeError: Invalid ID.")
               /\ UNCHANGED hsReqs
           ELSE IF NormalizeStr(id.s) = <<>> THEN
               /\ hsPc' = "done"
               /\ hsResult' = HSThrow("TypeError: Invalid Query")
               /\ UNCHANGED hsReqs
           ELSE
               /\ hsReqs' = Append(hsReqs, HSSearchUrl(client.BASE_URL, NormalizeStr(id.s)))
               /\ hsPc' = "search"
               /\ UNCHANGED hsResult
    /\ UNCHANGED <<hsPage, hsMatching, hsInfo, hsSettled, client>>

\* The search page arrives (or its fetch fails, or a post lacks its date):
\* the matching results are selected and one detail request per matching
\* result is issued, all before any of them completes.
HSSearchResponse ==
    /\ hsPc = "search"
    /\ \/ /\ \E e \in {"TypeError: fetch failed",
                       "TypeError: Cannot read properties of undefined"} :
                hsResult' = HSThrow(e)
          /\ hsPc' = "done"
          /\ UNCHANGED <<hsReqs, hsPage, hsMatching, hsInfo>>
       \/ \E ok \in BOOLEAN, posts \in SearchPages :
            LET matching == MatchingResults(posts, NormalizeStr(hsId.s))
                valid == SelectSeq(matching, LAMBDA result : result.id # <<>>)
            IN  /\ hsPage' = [received |-> TRUE, ok |-> ok, posts |-> posts]
                /\ hsMatching' = matching
                /\ hsReqs' = hsReqs \o [i \in 1..Len(valid) |->
                                           HSEpisodeUrl(client.BASE_URL, valid[i].id)]
                /\ hsInfo' = [i \in 1..Len(matching) |-> DetailPending]
                /\ IF matching = <<>> THEN
                       hsPc' = "done" /\ hsResult' = HSReturn(HSNull)
                   ELSE IF Len(valid) < Len(matching) THEN
                       hsPc' = "done" /\ hsResult' = HSThrow("TypeError: Invalid ID.")
                   ELSE
                       hsPc' = "details" /\ UNCHANGED hsResult
    /\ UNCHANGED <<hsId, hsSettled, client>>

\* A failed detail request is requested again.
HSRetryDetail(i, e) ==
    /\ hsReqs' = Append(hsReqs, HSEpisodeUrl(client.BASE_URL, hsMatching[i].id))
    /\ UNCHANGED <<hsPc, hsResult, hsInfo, hsSettled>>

\* What getInfo does when detail request i has failed: Promise.all rejects
\* and getInfo throws, whatever the other requests did.
HSOnDetailFailure(i, e) ==
    /\ hsPc' = "done"
    /\ hsResult' = HSThrow(e)
    /\ hsInfo' = [hsInfo EXCEPT ![i] = DetailFailed]
    /\ UNCHANGED <<hsReqs, hsSettled>>

\* One of the pending detail requests completes, in any order: a failure
\* rejects Promise.all at once; the last success joins the episodes, sorts
\* them and returns.
HSDetailResponse ==
    /\ hsPc = "details"
    /\ \E i \in 1..Len(hsInfo) :
        /\ \A k \in 1..Len(hsSettled) : hsSettled[k] # i
        /\ \/ \E e \in {"TypeError: fetch failed",
                        "TypeError: Cannot read properties of undefined"} :
                HSOnDetailFailure(i, e)
           \/ \E page \in DetailPages :
                LET info == [hsInfo EXCEPT ![i] = page]
                    settled == Append(hsSettled, i)
                IN  /\ hsInfo' = info
                    /\ hsSettled' = settled
                    /\ UNCHANGED hsReqs
                    /\ IF Len(settled) = Len(hsMatching) THEN
                           /\ hsPc' = "done"
                           /\ hsResult' = HSReturn(AnimeInfo(NormalizeStr(hsId.s),
                                                             hsMatching, info, settled))
                       ELSE UNCHANGED <<hsPc, hsResult>>
    /\ UNCHANGED <<hsId, hsPage, hsMatching, client>>

\* The episode ids the last getInfo call returned.
HSEmittedIds ==
    IF hsResult.k # "return" THEN {}
    ELSE { StrV(hsResult.v.episodes[k].id) : k \in 1..Len(hsResult.v.episodes) }

----------------------------------------------------------------------------
(* The other operations that check their argument: Rule34.searchAutocomplete *)
(* and getInfo, HentaiHaven.search and getInfo, HentaiStream.search,        *)
(* getInfoEpisode and getEpisode                                            *)

VARIABLES
    fcPc,       \* "idle", "fetch", "frame" (getEpisode's second fetch), "done"
    fcCall,     \* the operation called and its argument
    fcReqs,     \* the requests issued so far: URL and cookie header of each
    fcGot,      \* the responses received so far: the request answered and
                \* whether its status was a success
    fcResult    \* how the call ended

fcVars == <<fcPc, fcCall, fcReqs, fcGot, fcResult>>

FCReturn == [k |-> "return", err |-> ""]

FCThrow(e) == [k |-> "throw", err |-> e]

FCRequest(url, cookie) == [url |-> url, cookie |-> cookie]

\* The arguments tried: undefined, "", "a", "ZTE=" (btoa of "e1") and a
\* number.
FCArgs == { Undefined, StrV(<<>>), StrV(<<97>>), StrV(<<90, 84, 69, 61>>),
            [t |-> "number", s |-> <<55>>] }

NotAString(x) == x.t # "string"

\* !x || typeof x !== "string"
NotNonEmptyString(x) == x.t # "string" \/ x.s = <<>>

InitFC ==
    /\ fcPc = "idle"
    /\ fcCall = [op |-> "none", arg |-> NoValue]
    /\ fcReqs = <<>>
    /\ fcGot = <<>>
    /\ fcResult = [k |-> "pending", err |-> ""]

\* An operation rejects its argument before any request.
FCReject(op, arg, e) ==
    /\ fcCall' = [op |-> op, arg |-> arg]
    /\ fcPc' = "done"
    /\ fcResult' = FCThrow(e)
    /\ UNCHANGED <<fcReqs, fcGot, client>>

FCFetchKeepingUrl(op, arg, reqs) ==
    /\ fcCall' = [op |-> op, arg |-> arg]
    /\ fcPc' = "fetch"
    /\ fcReqs' = fcReqs \o reqs
    /\ client' = [client EXCEPT !.BASE_URL = reqs[1].url]
    /\ UNCHANGED <<fcGot, fcResult>>

\* The requests are issued and the operation gives up at once.
FCFetchTimingOut(op, arg, reqs) ==
    /\ fcCall' = [op |-> op, arg |-> arg]
    /\ fcPc' = "done"
    /\ fcReqs' = fcReqs \o reqs
    /\ fcResult' = FCThrow("Error: timeout")
    /\ UNCHANGED <<fcGot, client>>

\* An operation issues its first requests and awaits them.
FCFetch(op, arg, reqs) ==
    /\ fcCall' = [op |-> op, arg |-> arg]
    /\ fcPc' = "fetch"
    /\ fcReqs' = fcReqs \o reqs
    /\ UNCHANGED <<fcGot, fcResult, client>>

\* The response to request n arrives with a status; the operation ends
\* with result.
FCEnd(op, n, ok, result) ==
    /\ fcCall.op = op
    /\ fcGot' = Append(fcGot, [req |-> n, ok |-> ok])
    /\ fcPc' = "done"
    /\ fcResult' = result
    /\ UNCHANGED <<fcCall, fcReqs, client>>

\* The fetch of a request rejects, and so does the operation.
FCFetchFailed(op) ==
    /\ fcCall.op = op
    /\ fcPc' = "done"
    /\ fcResult' = FCThrow("TypeError: fetch failed")
    /\ UNCHANGED <<fcCall, fcReqs, fcGot, client>>

\* "/autocomplete.php?q="
AutocompletePath ==
    <<47, 97, 117, 116, 111, 99, 111, 109, 112, 108, 101, 116, 101, 46, 112, 104,
      112, 63, 113, 61>>

\* Rule34.searchAutocomplete(query) up to its fetch.
R34SearchAutocomplete ==
    /\ fcPc = "idle"
    /\ client.kind = "Rule34"
    /\ \E query \in FCArgs :
        IF NotNonEmptyString(query)
        THEN FCReject("Rule34.searchAutocomplete", query, "TypeError: Query invalid")
        ELSE FCFetch("Rule34.searchAutocomplete", query,
                     <<FCRequest(client.API_URL \o AutocompletePath \o query.s, <<>>)>>)

\* The suggestions arrive: response.json() and data.map.
R34SearchAutocompleteResponse ==
    /\ fcPc = "fetch"
    /\ \/ FCFetchFailed("Rule34.searchAutocomplete")
       \/ \E ok \in BOOLEAN, result \in {FCReturn, FCThrow("SyntaxError"),
                                         FCThrow("TypeError: data.map is not a function")} :
            FCEnd("Rule34.searchAutocomplete", 1, ok, result)

\* "/index.php?page=post&s=view&id="
ViewPath ==
    <<47, 105, 110, 100, 101, 120, 46, 112, 104, 112, 63, 112, 97, 103, 101, 61,
      112, 111, 115, 116, 38, 115, 61, 118, 105, 101, 119, 38, 105, 100, 61>>

\* "resize-notification=1; resize-original=1"
ResizeCookie ==
    <<114, 101, 115, 105, 122, 101, 45, 110, 111, 116, 105, 102, 105, 99, 97, 116,
      105, 111, 110, 61, 49, 59, 32, 114, 101, 115, 105, 122, 101, 45, 111, 114,
      105, 103, 105, 110, 97, 108, 61, 49>>

\* Rule34.getInfo(id) up to its await: the same URL is fetched twice at
\* once, without and with the resize cookies; the id is not checked.
R34GetInfo ==
    /\ fcPc = "idle"
    /\ client.kind = "Rule34"
    /\ \E id \in FCArgs :
        LET url == client.BASE_URL \o ViewPath \o JsToString(id)
        IN  FCFetch("Rule34.getInfo", id,
                    <<FCRequest(url, <<>>), FCRequest(url, ResizeCookie)>>)

\* One of the two responses arrives, in any order: a failed fetch rejects
\* Promise.all; after the second response both pages are read.
R34GetInfoResponse ==
    /\ fcPc = "fetch"
    /\ \/ FCFetchFailed("Rule34.getInfo")
       \/ \E n \in 1..2, ok \in BOOLEAN :
            /\ fcCall.op = "Rule34.getInfo"
            /\ \A k \in 1..Len(fcGot) : fcGot[k].req # n
            /\ IF fcGot = <<>> THEN
                   /\ fcGot' = Append(fcGot, [req |-> n, ok |-> ok])
                   /\ UNCHANGED <<fcCall, fcReqs, fcPc, fcResult, client>>
               ELSE
                   \E result \in {FCReturn,
                                  FCThrow("TypeError: Cannot read properties of undefined")} :
                       FCEnd("Rule34.getInfo", n, ok, result)

\* "&post_type=wp-manga"
PostTypeQuery ==
    <<38, 112, 111, 115, 116, 95, 116, 121, 112, 101, 61, 119, 112, 45, 109, 97,
      110, 103, 97>>

\* HentaiHaven.search(query) up to its fetch.
HHSearch ==
    /\ fcPc = "idle"
    /\ client.kind = "HentaiHaven"
    /\ \E query \in FCArgs :
        IF NotNonEmptyString(query)
        THEN FCReject("HentaiHaven.search", query, "TypeError: Invalid query in search.")
        ELSE FCFetch("HentaiHaven.search", query,
                     <<FCRequest(client.BASE_URL \o <<47, 63, 115, 61>> \o query.s
                                     \o PostTypeQuery, <<>>)>>)

\* The search page arrives: every body yields a list of results.
HHSearchResponse ==
    /\ fcPc = "fetch"
    /\ \/ FCFetchFailed("HentaiHaven.search")
       \/ \E ok \in BOOLEAN : FCEnd("HentaiHaven.search", 1, ok, FCReturn)

\* HentaiHaven.getInfo(id) up to its fetch.
HHGetInfo ==
    /\ fcPc = "idle"
    /\ client.kind = "HentaiHaven"
    /\ \E id \in FCArgs :
        IF Falsy(id)
        THEN FCReject("HentaiHaven.getInfo", id, "Error: Id is required")
        ELSE FCFetch("HentaiHaven.getInfo", id,
                     <<FCRequest(client.BASE_URL \o WatchPath \o JsToString(id), <<>>)>>)

\* The series page arrives: an empty body and a blocked page are errors.
HHGetInfoResponse ==
    /\ fcPc = "fetch"
    /\ \/ FCFetchFailed("HentaiHaven.getInfo")
       \/ \E ok \in BOOLEAN, result \in {FCReturn, FCThrow("Error: Error fetching data"),
                                         FCThrow("Error: The webpage is blocked.")} :
            FCEnd("HentaiHaven.getInfo", 1, ok, result)

\* HentaiStream.search(query) up to its fetch.
HSSearch ==
    /\ fcPc = "idle"
    /\ client.kind = "HentaiStream"
    /\ \E query \in FCArgs :
        IF NotNonEmptyString(query)
        THEN FCReject("HentaiStream.search", query, "TypeError: Invalid Query")
        ELSE FCFetch("HentaiStream.search", query,
                     <<FCRequest(HSSearchUrl(client.BASE_URL, query.s), <<>>)>>)

\* The search page arrives: a post without "Added: " makes the parse throw.
HSSearchOnlyResponse ==
    /\ fcPc = "fetch"
    /\ \/ FCFetchFailed("HentaiStream.search")
       \/ \E ok \in BOOLEAN, result \in {FCReturn,
                                         FCThrow("TypeError: Cannot read properties of undefined")} :
            FCEnd("HentaiStream.search", 1, ok, result)

\* HentaiStream.getInfoEpisode(id) up to its fetch.
HSGetInfoEpisode ==
    /\ fcPc = "idle"
    /\ client.kind = "HentaiStream"
    /\ \E id \in FCArgs :
        IF NotNonEmptyString(id)
        THEN FCReject("HentaiStream.getInfoEpisode", id, "TypeError: Invalid ID.")
        ELSE FCFetch("HentaiStream.getInfoEpisode", id,
                     <<FCRequest(HSEpisodeUrl(client.BASE_URL, id.s), <<>>)>>)

\* The detail page arrives: a page without "Added: " or "Views: " makes the
\* parse throw.
HSGetInfoEpisodeResponse ==
    /\ fcPc = "fetch"
    /\ \/ FCFetchFailed("HentaiStream.getInfoEpisode")
       \/ \E ok \in BOOLEAN, result \in {FCReturn,
                                         FCThrow("TypeError: Cannot read properties of undefined")} :
            FCEnd("HentaiStream.getInfoEpisode", 1, ok, result)

\* HentaiStream.getEpisode(id) up to its first fetch: the id is checked and
\* then decoded with atob.
HSGetEpisode ==
    /\ fcPc = "idle"
    /\ client.kind = "HentaiStream"
    /\ \E id \in FCArgs \cup HSEmittedIds :
        IF NotNonEmptyString(id)
        THEN FCReject("HentaiStream.getEpisode", id, "TypeError: Invalid ID.")
        ELSE IF atob(id.s).k = "throw"
        THEN FCReject("HentaiStream.getEpisode", id, atob(id.s).err)
        ELSE FCFetch("HentaiStream.getEpisode", id,
                     <<FCRequest(HSEpisodeUrl(client.BASE_URL, atob(id.s).v), <<>>)>>)

\* "https://f.x/v"
FrameUrl == <<104, 116, 116, 112, 115, 58, 47, 47, 102, 46, 120, 47, 118>>

\* The episode page arrives: the parse may throw, a page without an iframe
\* is an error, and the iframe's page is fetched next.
HSGetEpisodeResponse ==
    /\ fcPc = "fetch"
    /\ \/ FCFetchFailed("HentaiStream.getEpisode")
       \/ \E ok \in BOOLEAN,
             result \in {FCThrow("TypeError: Cannot read properties of undefined"),
                         FCThrow("Error: Failed to fetch streams")} :
            FCEnd("HentaiStream.getEpisode", 1, ok, result)
       \/ \E ok \in BOOLEAN :
            /\ fcCall.op = "HentaiStream.getEpisode"
            /\ fcGot' = Append(fcGot, [req |-> 1, ok |-> ok])
            /\ fcReqs' = Append(fcReqs, FCRequest(FrameUrl, <<>>))
            /\ fcPc' = "frame"
            /\ UNCHANGED <<fcCall, fcResult, client>>

\* The iframe's page arrives and the stream is returned.
HSGetEpisodeFrameResponse ==
    /\ fcPc = "frame"
    /\ \/ FCFetchFailed("HentaiStream.getEpisode")
       \/ \E ok \in BOOLEAN : FCEnd("HentaiStream.getEpisode", 2, ok, FCReturn)

----------------------------------------------------------------------------
(* The upstream sites *)

VARIABLES
    answered    \* how many requests of the calls in hand have completed, with a
                \* response or with a failure of the fetch

upVars == <<answered>>

\* One request completes: the step in which its response (or its failure)
\* reaches the awaiting call.
Answer == answered' = answered + 1

\* Every variable of the model.
vars == <<rotVars, clientVars, ctorVars, hiVars, hhVars, r34Vars, haVars, normVars, hsVars, fcVars,
          upVars>>

----------------------------------------------------------------------------
(* Claims about rot13Cipher *)

IsPrintableAscii(s) == \A i \in 1..Len(s) : s[i] \in PrintableAscii

\* C1: rot13Cipher is self-inverse: for every string of printable ASCII
\* characters, the second of two successive applications returns the
\* original string.
C1_SelfInverse ==
    (/\ Len(rotCalls) = 2
     /\ rotInput.t = "string"
     /\ IsPrintableAscii(rotInput.s))
        => rotCalls[2].res = Return(rotInput.s)

\* Two applications have been made to a printable string holding an upper
\* case and a lower case letter, and the first one changed it.
C1_Witness ==
    /\ Len(rotCalls) = 2
    /\ rotInput = StrV(<<78, 97, 32>>)
    /\ rotCalls[1].res.v # rotInput.s

\* The 26-letter alphabets and their images 13 places further, wrapping.
UpperAlphabet == <<65, 66, 67, 68, 69, 70, 71, 72, 73, 74, 75, 76, 77,
                   78, 79, 80, 81, 82, 83, 84, 85, 86, 87, 88, 89, 90>>

LowerAlphabet == <<97, 98, 99, 100, 101, 102, 103, 104, 105, 106, 107, 108, 109,
                   110, 111, 112, 113, 114, 115, 116, 117, 118, 119, 120, 121, 122>>

Rotated(alphabet) == SubSeq(alphabet, 14, 26) \o SubSeq(alphabet, 1, 13)

InAlphabet(alphabet, c) == \E p \in 1..26 : alphabet[p] = c

ImageIn(alphabet, c) == Rotated(alphabet)[CHOOSE p \in 1..26 : alphabet[p] = c]

\* C2: for every string s, rot13Cipher(s) has the length of s; position by
\* position a letter becomes the letter 13 places further in its own-case
\* alphabet (wrapping), and any other character is unchanged.
C2_LetterMap ==
    \A n \in 1..Len(rotCalls) :
        LET s == rotCalls[n].arg.s
            r == rotCalls[n].res
        IN  rotCalls[n].arg.t = "string" =>
                /\ r.k = "return"
                /\ Len(r.v) = Len(s)
                /\ \A i \in 1..Len(s) :
                       r.v[i] = IF InAlphabet(UpperAlphabet, s[i]) THEN ImageIn(UpperAlphabet, s[i])
                                ELSE IF InAlphabet(LowerAlphabet, s[i]) THEN ImageIn(LowerAlphabet, s[i])
                                ELSE s[i]

\* rot13Cipher has been applied to "Zn{": a wrapping upper case letter, a
\* lower case letter and a non-letter.
C2_Witness ==
    /\ Len(rotCalls) >= 1
    /\ rotCalls[1].arg = StrV(<<90, 110, 123>>)
    /\ rotCalls[1].res = Return(<<77, 97, 123>>)

\* C3: rot13Cipher throws a TypeError for every input that is not a string
\* and returns the empty string for the empty string.
C3_TypeErrorAndEmpty ==
    \A n \in 1..Len(rotCalls) :
        /\ rotCalls[n].arg.t # "string" => rotCalls[n].res = Throw("TypeError")
        /\ rotCalls[n].arg = StrV(<<>>) => rotCalls[n].res = Return(<<>>)

\* rot13Cipher has been called with a number and has thrown.
C3_Witness ==
    /\ Len(rotCalls) = 1
    /\ rotCalls[1].arg.t = "number"
    /\ rotCalls[1].res.k = "throw"

----------------------------------------------------------------------------
(* Claims about the unscrambling in HentaiHaven.getEpisode *)

PostSent == \E n \in 1..Len(hhReqs) : hhReqs[n].method = "POST"

\* {"en":"k","iv":"v","uri":"u/"}
FullRecordText == RecordText(StrV(<<107>>), StrV(<<118>>), StrV(<<117, 47>>))

\* C4: the unscrambling is three rounds of substitution cipher first and
\* base64 decode second after the "sha512-" prefix is removed: whenever the
\* token is "sha512-" followed by F(F(F(P))), F(x) = rot13(base64(x)), the
\* text handed to JSON.parse is P.
C4_UnscrambleInvertsSite ==
    \A text \in PayloadTexts :
        hhMeta = StrV(SiteToken(text)) => hhUnscrambled = Return(text)

\* The token of a full record has been unscrambled and the player API has
\* been requested with its fields.
C4_Witness ==
    /\ hhPc = "api"
    /\ hhMeta = StrV(SiteToken(FullRecordText))
    /\ hhUnscrambled = Return(FullRecordText)
    /\ hhReqs[3] = Post(<<117, 47>> \o ApiPhp, <<107>>, <<118>>)

\* A decode stage failed: the token is missing, an atob of round 1, 2 or 3
\* rejected its text, or the final text is no structured record.
DecodeStageFailed ==
    \/ hhMeta.t = "undefined"
    \/ hhUnscrambled.k = "throw"
    \/ /\ hhUnscrambled.k = "return"
       /\ \/ JsonParse(hhUnscrambled.v).k = "throw"
          \/ JsonParse(hhUnscrambled.v).v.t # "object"

\* C5: any failure in a decode stage is fatal: once the iframe has been
\* read and a decode stage has failed, the call has thrown and no POST to
\* the player API has been sent.
C5_DecodeFailureIsFatal ==
    (hhMeta # NoValue /\ DecodeStageFailed) => (hhResult.k = "throw" /\ ~PostSent)

\* C6: the decoded record must carry en, iv and uri: when one of them is
\* absent the call has thrown and no POST to the player API has been sent.
C6_MissingFieldIsFatal ==
    (/\ hhData.t = "object"
     /\ \E name \in {<<101, 110>>, <<105, 118>>, <<117, 114, 105>>} :
            JsonGet(hhData, name).t = "undefined")
        => (hhResult.k = "throw" /\ ~PostSent)

----------------------------------------------------------------------------
(* Claims about the pagination of Rule34.search *)

R34Returned == r34Pc = "done" /\ r34Result.k = "return"

\* C7: when the pager's last link carries offset pid = k and k is a
\* non-negative multiple of perPage, the returned pages is k / perPage + 1.
C7_PagesFromOffset ==
    \A k \in Pids :
        (/\ R34Returned
         /\ r34Page.href = HrefFor(k)
         /\ k % r34Args.perPage = 0)
            => r34Result.v.pages = Whole((k \div r34Args.perPage) + 1)

\* A listing of two entries whose pager's last link has pid=40 was fetched
\* with perPage 20, and 3 pages were returned.
C7_Witness ==
    /\ R34Returned
    /\ r34Args.page = 1
    /\ r34Args.perPage = 20
    /\ r34Page = [items |-> 2, href |-> HrefFor(40)]
    /\ r34Result.v.pages = Whole(3)

\* C8: with no items and no pager link, for requested page 1 and every
\* perPage >= 1, the result has pages = 1, hasNextPage = false, total = 0.
C8_EmptyListing ==
    (/\ R34Returned
     /\ r34Page = [items |-> 0, href |-> Undefined]
     /\ r34Args.page = 1)
        => /\ r34Result.v.pages = Whole(1)
           /\ r34Result.v.hasNextPage = FALSE
           /\ r34Result.v.total = Whole(0)

\* The pager's last link has "pid=" followed by a text without any digit
\* at its start.
NonNumericPager ==
    \E text \in NonNumericTexts :
        r34Page.href = StrV(ListingHref \o <<38>> \o PidKey \o text)

\* C9: when the text after "pid=" is not numeric the pager value is taken
\* as 1: pages and total are numbers (never NaN) and the record is the one
\* returned for the same call when the pager is absent.
C9_NonNumericPagerAsOne ==
    (R34Returned /\ NonNumericPager)
        => /\ ~r34Result.v.pages.nan
           /\ ~r34Result.v.total.nan
           /\ r34Result.v = SearchResult(r34Args.page, r34Args.perPage,
                                         r34Page.items, Undefined)

\* The pager's last link carries a pid that is a multiple of perPage, so
\* that the page count is a whole number.
WholePager == \E k \in Pids : r34Page.href = HrefFor(k) /\ k % r34Args.perPage = 0

\* C10: the requested page is clamped into [1, pages]: whatever page was
\* requested, the returned page lies between 1 and pages, and a requested
\* page beyond pages is returned as pages.  (Stated for pagers whose page
\* count is a whole number.)
C10_PageClamped ==
    (R34Returned /\ WholePager)
        => /\ 1 <= r34Result.v.page
           /\ r34Result.v.page <= r34Result.v.pages.n
           /\ r34Args.page > r34Result.v.pages.n => r34Result.v.page = r34Result.v.pages.n

----------------------------------------------------------------------------
(* Claims about the pagination of HAnime.search *)

HAReturned == haPc = "done" /\ haResult.k = "return"

\* C12: in every result returned by Rule34.search or HAnime.search,
\* hasNextPage is true exactly when page < pages, and exactly when a next
\* page is reported: next is a non-zero offset in Rule34, a defined page
\* number in HAnime.
C12_HasNextIffNextReported ==
    /\ R34Returned =>
           /\ r34Result.v.hasNextPage <=> LessThan(r34Result.v.page, r34Result.v.pages)
           /\ r34Result.v.hasNextPage <=> r34Result.v.next # 0
    /\ HAReturned =>
           /\ haResult.v.hasNextPage <=> haResult.v.page < haResult.v.pages
           /\ haResult.v.hasNextPage <=> haResult.v.next.def

\* C13: every result returned by HAnime.search for a perPage >= 1 has
\* pages = max(1, ceil(total / perPage)) and 1 <= page <= pages, whatever
\* the requested page, also when the response has total 0 or no hit list.
C13_PagesAtLeastOne ==
    (HAReturned /\ haArgs.perPage >= 1) =>
        /\ haResult.v.pages = Max(1, CeilDiv(haResult.v.total, haArgs.perPage))
        /\ 1 <= haResult.v.page
        /\ haResult.v.page <= haResult.v.pages

----------------------------------------------------------------------------
(* Claims about normalize *)

IsLowerOrSpace(c) == (c >= 97 /\ c <= 122) \/ IsRegexSpace(c)

\* C20: normalize("Hello World! 123") returns "hello world" and
\* normalize("Just TEXT! @#$%^&*()") returns "just text"; for every string
\* the result holds only lowercase letters and white space and no two
\* consecutive white space characters.
C20_NormalizeExamples ==
    (normResult # Pending /\ normInput.t = "string") =>
        /\ normResult.k = "return"
        /\ normInput.s = HelloExample =>
               normResult.v = <<104, 101, 108, 108, 111, 32, 119, 111, 114, 108, 100>>
        /\ normInput.s = JustTextExample =>
               normResult.v = <<106, 117, 115, 116, 32, 116, 101, 120, 116>>
        /\ \A i \in 1..Len(normResult.v) : IsLowerOrSpace(normResult.v[i])
        /\ \A i \in 1..(Len(normResult.v) - 1) :
               ~(IsRegexSpace(normResult.v[i]) /\ IsRegexSpace(normResult.v[i + 1]))

----------------------------------------------------------------------------
(* Claims about HentaiStream.getInfo *)

HSReturned == hsPc = "done" /\ hsResult.k = "return"

\* The posts of the search page whose normalized title contains the
\* normalized id, in the order the search found them.
HSMatching ==
    SelectSeq(hsPage.posts,
              LAMBDA post : Includes(NormalizeStr(post.title), NormalizeStr(hsId.s)))

\* The place among the matching results of the one a returned episode
\* was made from (the ids of a search page are distinct).
Discovered(matching, episode) ==
    CHOOSE i \in 1..Len(matching) : btoa(matching[i].id).v = episode.id

\* The number a title sorts by: its first run of digits, 0 without one.
TitleNumber(title) ==
    IF \E i \in 1..Len(title) : IsDigit(title[i])
    THEN DigitsValue(FirstDigits(title)) ELSE 0

\* C14: whatever the order in which the concurrent detail requests
\* complete, the episodes getInfo returns are all the matching results,
\* ascending by the number in the title (0 without one), and episodes
\* with equal numbers are in the order in which the search found them.
C14_SortedAfterJoin ==
    (HSReturned /\ ~hsResult.v.null) =>
        LET episodes == hsResult.v.episodes
            matching == HSMatching
            from == [k \in 1..Len(episodes) |-> Discovered(matching, episodes[k])]
            number == [k \in 1..Len(episodes) |-> TitleNumber(matching[from[k]].title)]
        IN  /\ Len(hsSettled) = Len(matching)
            /\ Len(episodes) = Len(matching)
            /\ \A i \in 1..Len(matching) : \E k \in 1..Len(episodes) : from[k] = i
            /\ \A k \in 1..(Len(episodes) - 1) :
                   /\ number[k] <= number[k + 1]
                   /\ number[k] = number[k + 1] => from[k] < from[k + 1]

\* "Ab 2", "ab 1" and "ab 01" were found in this order, their detail
\* requests completed in the order 3, 1, 2, and getInfo returned "ab 1",
\* "ab 01", "Ab 2".
C14_Witness ==
    /\ HSReturned
    /\ hsId = StrV(<<97, 98>>)
    /\ hsPage.posts = << [id |-> <<101, 50>>, title |-> <<65, 98, 32, 50>>],
                         [id |-> <<101, 49>>, title |-> <<97, 98, 32, 49>>],
                         [id |-> <<101, 51>>, title |-> <<97, 98, 32, 48, 49>>] >>
    /\ hsSettled = <<3, 1, 2>>
    /\ [k \in 1..3 |-> hsResult.v.episodes[k].id] =
           <<btoa(<<101, 49>>).v, btoa(<<101, 51>>).v, btoa(<<101, 50>>).v>>

\* C19: once the search page has been read, getInfo resolves to null
\* exactly when no post has a normalized title containing the normalized
\* id, having issued the search request and nothing else; when it resolves
\* otherwise, its episodes hold exactly one entry per matching post.
C19_NullWithoutMatch ==
    LET matching == HSMatching
    IN  /\ (hsPage.received /\ matching = <<>>) =>
               /\ hsResult = HSReturn(HSNull)
               /\ hsReqs = <<HSSearchUrl(client.BASE_URL, NormalizeStr(hsId.s))>>
        /\ (HSReturned /\ matching # <<>>) =>
               /\ ~hsResult.v.null
               /\ Len(hsResult.v.episodes) = Len(matching)
               /\ \A i \in 1..Len(matching) :
                      Cardinality({ k \in 1..Len(hsResult.v.episodes) :
                          hsResult.v.episodes[k].id = btoa(matching[i].id).v }) = 1

\* getInfo("zz") read a search page of two posts, neither matching, and
\* resolved to null after its single request.
C19_Witness ==
    /\ hsPc = "done"
    /\ hsId = StrV(<<122, 122>>)
    /\ Len(hsPage.posts) = 2
    /\ hsResult = HSReturn(HSNull)
    /\ Len(hsReqs) = 1

----------------------------------------------------------------------------
(* Claims about every operation of a client *)

NoRepeat(s) == \A i, j \in 1..Len(s) : i # j => s[i] # s[j]

Urls(reqs) == [i \in 1..Len(reqs) |-> reqs[i].url]

\* One of getInfo's detail requests has failed.
DetailHasFailed == \E i \in 1..Len(hsInfo) : hsInfo[i] = DetailFailed

\* getInfo has ended with an error and without a result.
HSFailed == hsPc = "done" /\ hsResult.k = "throw" /\ hsResult.v = HSNull

RequestsOf(op) ==
    IF op \in {"Rule34.getInfo", "HentaiStream.getEpisode"} THEN 2 ELSE 1

FCGotNonSuccess == \E k \in 1..Len(fcGot) : ~fcGot[k].ok

\* C16: an operation that has received a response with a non-success
\* status fails with an error: it does not go on to a further request or
\* to a returned result.  (Rule34.search; HAnime.search; the search page
\* and the detail pages of HentaiStream.getInfo; the operations of the fc
\* component.)
C16_NonSuccessStatusFails ==
    /\ (r34Pc = "done" /\ ~r34Ok) => r34Result.k = "throw"
    /\ (haPc = "done" /\ ~haResponse.ok) => haResult.k = "throw"
    /\ (hsPage.received /\ ~hsPage.ok) => HSFailed
    /\ (\E k \in 1..Len(hsSettled) : ~hsInfo[hsSettled[k]].ok) => HSFailed
    /\ FCGotNonSuccess => (fcPc = "done" /\ fcResult.k = "throw")

EmptyString == StrV(<<>>)

\* The operations of the fc component that check their argument.
CheckingOperations ==
    { "Rule34.searchAutocomplete", "HentaiHaven.search", "HentaiHaven.getInfo",
      "HentaiStream.search", "HentaiStream.getInfoEpisode",
      "HentaiStream.getEpisode" }

\* C17: a call of Rule34.search, Rule34.searchAutocomplete, HAnime.search,
\* HentaiHaven.search, getInfo or getEpisode, or HentaiStream.search,
\* getInfoEpisode, getInfo or getEpisode whose query or id is the empty
\* string has ended with an error and has issued no request.
C17_EmptyArgumentRejected ==
    /\ (r34Pc # "idle" /\ r34Args.query = EmptyString) =>
           (r34Pc = "done" /\ r34Result.k = "throw" /\ r34Reqs = <<>>)
    /\ (haPc # "idle" /\ haArgs.query = EmptyString) =>
           (haPc = "done" /\ haResult.k = "throw" /\ haReqs = <<>>)
    /\ (hhPc # "idle" /\ hhId = EmptyString) =>
           (hhPc = "done" /\ hhResult.k = "throw" /\ hhReqs = <<>>)
    /\ (hsPc # "idle" /\ hsId = EmptyString) =>
           (hsPc = "done" /\ hsResult.k = "throw" /\ hsReqs = <<>>)
    /\ (fcCall.op \in CheckingOperations /\ fcCall.arg = EmptyString) =>
           (fcPc = "done" /\ fcResult.k = "throw" /\ fcReqs = <<>>)

\* HentaiHaven.getInfo("") threw "Id is required" without a request.
C17_Witness ==
    /\ fcCall = [op |-> "HentaiHaven.getInfo", arg |-> EmptyString]
    /\ fcPc = "done"
    /\ fcResult = FCThrow("Error: Id is required")
    /\ fcReqs = <<>>

StartsWith(s, p) == Len(p) <= Len(s) /\ SubSeq(s, 1, Len(p)) = p

\* Every request built from the configuration went to the configured URL:
\* the first request of each call, the second of Rule34.getInfo and the
\* detail requests of HentaiStream.getInfo.
RequestsUseConfiguration ==
    /\ \A i \in 1..Len(haReqs) : haReqs[i].url = client.SEARCH_URL
    /\ \A i \in 1..Len(hsReqs) : StartsWith(hsReqs[i], client.BASE_URL)
    /\ hhReqs # <<>> => StartsWith(hhReqs[1].url, client.BASE_URL)
    /\ fcReqs # <<>> =>
           StartsWith(fcReqs[1].url,
                      IF fcCall.op = "Rule34.searchAutocomplete"
                      THEN client.API_URL ELSE client.BASE_URL)
    /\ (fcCall.op = "Rule34.getInfo" /\ fcReqs # <<>>) =>
           StartsWith(fcReqs[2].url, client.BASE_URL)

\* Each episode getInfo returns carries the views of the response to its
\* own detail request, whatever the order of the responses.
EpisodesFromOwnResponses ==
    (HSReturned /\ ~hsResult.v.null) =>
        \A k \in 1..Len(hsResult.v.episodes) :
            \E i \in 1..Len(hsMatching) :
                /\ hsResult.v.episodes[k].id = btoa(hsMatching[i].id).v
                /\ hsResult.v.episodes[k].views = hsInfo[i].views

\* A step of one of two overlapping calls on a HentaiHaven client leaves
\* the other call as it was; only the caller's next round resets both.
CallsApart ==
    (hhVars' # hhVars /\ fcVars' # fcVars) => (hhPc' = "idle" /\ fcPc' = "idle")

\* C18: no step of any operation writes the client's configuration
\* (BASE_URL, API_URL, SEARCH_URL, generateSignature keep the constructor's
\* values through every sequence and interleaving of calls), every call
\* uses that configuration for its requests, a step of one call changes
\* nothing of a call in flight beside it, and what getInfo returns for an
\* episode comes from the response to that episode's own request.
C18_ConfigurationNotWritten ==
    /\ [][client' = client /\ CallsApart]_vars
    /\ [](client \in Clients)
    /\ []RequestsUseConfiguration
    /\ []EpisodesFromOwnResponses

\* On a HentaiHaven client built with a custom base URL, getEpisode is
\* waiting for its third response while getInfo is waiting for its page;
\* both went to the custom URL and the configuration is the constructor's.
C18_Witness ==
    /\ client = HentaiHavenClient(CustomOptions)
    /\ client.BASE_URL = CustomUrl
    /\ hhPc = "api"
    /\ Len(hhReqs) = 3
    /\ StartsWith(hhReqs[1].url, CustomUrl)
    /\ fcPc = "fetch"
    /\ fcCall.op = "HentaiHaven.getInfo"
    /\ StartsWith(fcReqs[1].url, CustomUrl)

----------------------------------------------------------------------------
(* Claims about the construction of a client *)

\* The options give a non-empty override for the field.
Overridden(options, name) ==
    options.given /\ options[name].t = "string" /\ options[name].s # <<>>

\* The value a URL field must hold: the override if one is given, the
\* default otherwise.
Expected(options, name, default) ==
    IF Overridden(options, name) THEN options[name].s ELSE default

DefaultBaseUrl(class) ==
    CASE class = "Rule34" -> RULE34_BASE_URL
      [] class = "HAnime" -> HANIME_BASE_URL
      [] class = "HentaiHaven" -> HENTAI_HAVEN_URL
      [] class = "HentaiStream" -> HENTAI_STREAM_BASE_URL

\* C21: each of the four clients is constructed without error from any
\* options, and from none at all; a non-empty URL override in the options
\* is the value the client holds, and an absent or empty one leaves the
\* default.
C21_ConstructedWithDefaults ==
    ctorCall.class # "none" =>
        LET options == ctorCall.options
            built == ctorResult.client
        IN  /\ ctorResult.k = "return"
            /\ built.kind = ctorCall.class
            /\ built.BASE_URL =
                   Expected(options, "baseUrl", DefaultBaseUrl(ctorCall.class))
            /\ ctorCall.class = "Rule34" =>
                   built.API_URL = Expected(options, "apiUrl", RULE34_API_URL)
            /\ ctorCall.class = "HAnime" =>
                   built.SEARCH_URL = Expected(options, "searchUrl", HANIME_SEARCH_URL)

----------------------------------------------------------------------------
(* Claims about requests and their completion *)

\* The requests issued by the calls in hand.
Issued == Len(hhReqs) + Len(r34Reqs) + Len(haReqs) + Len(hsReqs) + Len(fcReqs)

\* Every call made has ended.
AllEnded == \A pc \in {r34Pc, hhPc, haPc, hsPc, fcPc} : pc \in {"idle", "done"}

\* The requests of the three operations the claim counts: getInfo of
\* HentaiStream while it awaits its detail requests and when it returns
\* (one after a null), getEpisode of HentaiHaven when it returns, getInfo
\* of Rule34.
RequestCounts ==
    /\ hsPc = "details" => Len(hsReqs) = 1 + Len(hsMatching)
    /\ HSReturned =>
           Len(hsReqs) = IF hsResult.v.null THEN 1 ELSE 1 + Len(hsMatching)
    /\ Len(hhReqs) <= 3
    /\ (hhPc = "done" /\ hhResult.k = "return") => Len(hhReqs) = 3
    /\ (fcCall.op = "Rule34.getInfo" /\ fcPc # "idle") => Len(fcReqs) = 2

\* C22 as stated: the operations issue their bounded numbers of requests,
\* the calls have ended once every request issued has completed, and a
\* call has not ended while a request it issued has not completed.
C22_PendingUntilAllComplete ==
    /\ RequestCounts
    /\ (Issued > 0 /\ answered = Issued) => AllEnded
    /\ AllEnded => answered = Issued

\* A call has thrown while requests it issued concurrently (through
\* Promise.all) were still out: getInfo of HentaiStream after its search,
\* getInfo of Rule34.
FailedFast ==
    \/ hsPc = "done" /\ hsResult.k = "throw" /\ hsPage.received
    \/ fcCall.op = "Rule34.getInfo" /\ fcPc = "done" /\ fcResult.k = "throw"

\* C22, amended: the operations issue their bounded numbers of requests,
\* the calls have ended once every request issued has completed, and a
\* call has not ended while a request it issued has not completed, unless
\* it has thrown because another of its concurrent requests or sub-calls
\* failed.
C22_PendingUntilCompleteOrFailedFast ==
    /\ RequestCounts
    /\ (Issued > 0 /\ answered = Issued) => AllEnded
    /\ AllEnded => (answered = Issued \/ FailedFast)

\* getInfo found three matching results, issued four requests, and
\* returned when the fourth had completed.
C22_Witness ==
    /\ HSReturned
    /\ Len(hsMatching) = 3
    /\ Len(hsReqs) = 4
    /\ answered = 4
    /\ AllEnded

----------------------------------------------------------------------------
(* Claims about the episode ids of HentaiHaven and HentaiStream *)

\* The text holds "episode-" somewhere.
HoldsEpisodeMark(s) ==
    \E i \in 1..(Len(s) - Len(EpisodeMark) + 1) :
        SubSeq(s, i, i + Len(EpisodeMark) - 1) = EpisodeMark

\* C23: a getEpisode call of HentaiHaven whose id contains "episode-" has
\* ended with the error "The Episode ID must be encoded." and has issued
\* no request.
C23_UnencodedIdRejected ==
    (hhPc # "idle" /\ hhId.t = "string" /\ HoldsEpisodeMark(hhId.s)) =>
        /\ hhPc = "done"
        /\ hhResult = Throw("Error: The Episode ID must be encoded.")
        /\ hhReqs = <<>>

\* getEpisode("a/episode-1") was rejected without a request.
C23_Witness ==
    /\ hhId = StrV(<<97, 47>> \o EpisodeMark \o <<49>>)
    /\ hhPc = "done"
    /\ hhResult = Throw("Error: The Episode ID must be encoded.")
    /\ hhReqs = <<>>

----------------------------------------------------------------------------
(* Claims about the episodes of HentaiHaven.getInfo *)

HIReturned == hiPc = "done" /\ hiResult.k = "return"

\* C24: for a series page listing N chapters, getInfo returns
\* totalEpisodes = N and N episodes whose numbers are exactly 1..N; the
\* chapter listed first has number N; with ASC, and with no sort order
\* given, the k-th episode has number k, and with DESC number N - k + 1
\* (k counted from 1).
C24_EpisodesNumbered ==
    HIReturned =>
        LET N == Len(hiPage.chapters)
            episodes == hiResult.v.episodes
            ascending == hiArgs.episodeSort \in {Undefined, StrV(<<65, 83, 67>>)}
        IN  /\ hiResult.v.totalEpisodes = N
            /\ Len(episodes) = N
            /\ { episodes[k].number : k \in 1..N } = 1..N
            /\ \A k \in 1..N :
                   /\ episodes[k].number = IF ascending THEN k ELSE N - k + 1
                   /\ episodes[k].number = N =>
                          episodes[k].id = btoa(ChapterPath(hiPage.chapters[1])).v

\* getInfo("s") read a page listing episode-2, episode-1 and a relative
\* link and returned, in ascending order, numbers 1, 2, 3 with the
\* relative link's episode first.
C24_Witness ==
    /\ HIReturned
    /\ hiArgs.episodeSort = Undefined
    /\ Len(hiPage.chapters) = 3
    /\ hiPage.chapters[3] = StrV(<<47, 119, 97, 116, 99, 104, 47, 115, 47, 101, 47>>)
    /\ hiPage.chapters[1] # hiPage.chapters[3]
    /\ [k \in 1..3 |-> hiResult.v.episodes[k].number] = <<1, 2, 3>>
    /\ hiResult.v.episodes[1].id = btoa(<<47, 117, 110, 100, 101, 102, 105, 110, 101, 100>>).v

\* The path getInfo scraped for the episode: that of the chapter in whose
\* place on the page the episode got its number.
ScrapedPath(episode) ==
    ChapterPath(hiPage.chapters[Len(hiPage.chapters) - episode.number + 1])

\* The detail paths HentaiStream.getInfo scraped whose encoding is the id.
ScrapedFor(id) ==
    { hsMatching[i].id : i \in { j \in 1..Len(hsMatching) : btoa(hsMatching[j].id).v = id } }

\* C25: every episode id returned by getInfo of HentaiHaven or of
\* HentaiStream is the base64 encoding of the path getInfo scraped for the
\* episode, is a non-empty string without "episode-", and, passed to
\* getEpisode of the same client, is accepted and makes getEpisode request
\* base URL + "/watch/" + path (HentaiHaven) or base URL + "/" + path
\* (HentaiStream) and nothing else.
C25_EpisodeIdsRoundTrip ==
    /\ HIReturned =>
           \A k \in 1..Len(hiResult.v.episodes) :
               LET episode == hiResult.v.episodes[k]
               IN  /\ episode.id = btoa(ScrapedPath(episode)).v
                   /\ episode.id # <<>>
                   /\ ~HoldsEpisodeMark(episode.id)
    /\ (hhPc # "idle" /\ hhId \in HIEmittedIds) =>
           /\ hhPc = "page"
           /\ \E k \in 1..Len(hiResult.v.episodes) :
                  /\ hiResult.v.episodes[k].id = hhId.s
                  /\ hhReqs = << Get(client.BASE_URL \o WatchPath
                                        \o ScrapedPath(hiResult.v.episodes[k])) >>
    /\ (HSReturned /\ ~hsResult.v.null) =>
           \A k \in 1..Len(hsResult.v.episodes) :
               /\ hsResult.v.episodes[k].id # <<>>
               /\ ScrapedFor(hsResult.v.episodes[k].id) # {}
    /\ (fcCall.op = "HentaiStream.getEpisode" /\ fcCall.arg \in HSEmittedIds) =>
           /\ fcPc = "fetch"
           /\ \E path \in ScrapedFor(fcCall.arg.s) :
                  fcReqs = << FCRequest(client.BASE_URL \o <<47>> \o path, <<>>) >>

\* getInfo of a HentaiHaven client returned an episode scraped from
\* ".../watch/s/episode-1/", and getEpisode, called with that episode's id,
\* requested "http://hentaihaven.xxx/watch/s/episode-1".
C25_Witness ==
    /\ client = HentaiHavenClient(EmptyOptions)
    /\ HIReturned
    /\ hhId \in HIEmittedIds
    /\ hhId = StrV(btoa(<<115, 47>> \o EpisodeMark \o <<49>>).v)
    /\ hhPc = "page"
    /\ hhReqs = << Get(HENTAI_HAVEN_URL \o WatchPath \o <<115, 47>> \o EpisodeMark \o <<49>>) >>

----------------------------------------------------------------------------
(* Claims about the offsets of Rule34.search *)

\* C26: in a result of Rule34.search for page p with perPage n, when a
\* next page is reported next is the pid search requests for page p + 1,
\* and when there is a previous page previous is the pid search requests
\* for page p - 1.
C26_OffsetsAgreeWithRequest ==
    R34Returned =>
        LET p == r34Result.v.page
            n == r34Args.perPage
        IN  /\ r34Reqs = << [tags |-> r34Args.query.s, pid |-> PidOf(p, n)] >>
            /\ r34Result.v.hasNextPage => r34Result.v.next = PidOf(p + 1, n)
            /\ p > 1 => r34Result.v.previous = PidOf(p - 1, n)

----------------------------------------------------------------------------
(* Claims about the hits returned by HAnime.search *)

\* C27: a call of HAnime.search with page p >= 1 and perPage n >= 1 sends
\* one POST for page index p - 1, and when it returns for a response that
\* lists h hits, results holds min(h, n) entries and the returned page is
\* the page that was fetched.
C27_ReturnsHitsOfFetchedPage ==
    (/\ haArgs.page >= 1
     /\ haArgs.perPage >= 1
     /\ haReqs # <<>>) =>
        /\ Len(haReqs) = 1
        /\ haReqs[1].page = haArgs.page - 1
        /\ (HAReturned /\ haResponse.hits >= 0) =>
              /\ haResult.v.results = Min(haResponse.hits, haArgs.perPage)
              /\ haResult.v.page = haReqs[1].page + 1

----------------------------------------------------------------------------
(* Specifications *)

RotIdle == rotInput = StrV(<<>>) /\ rotCalls = <<>>

NormIdle == normInput = StrV(<<>>) /\ normResult = Pending

\* No call is in flight or finished.
NoCall ==
    /\ r34Pc = "idle"
    /\ hhPc = "idle"
    /\ haPc = "idle"
    /\ hsPc = "idle"
    /\ fcPc = "idle"

\* A caller starts a call when none is in flight; on a HentaiHaven client
\* getEpisode may overlap a search or getInfo call.
MayStart == NoCall \/ client.kind = "HentaiHaven"

\* Every call made has ended, and the caller goes on to its next call on
\* the same client.
CallAgain ==
    /\ ~NoCall
    /\ \A pc \in {r34Pc, hhPc, haPc, hsPc, fcPc} : pc \in {"idle", "done"}
    /\ hhPc' = "idle"
    /\ hhId' = NoValue
    /\ hhReqs' = <<>>
    /\ hhMeta' = NoValue
    /\ hhUnscrambled' = Pending
    /\ hhData' = JValue("none", <<>>, <<>>)
    /\ hhResult' = Pending
    /\ r34Pc' = "idle"
    /\ r34Args' = [query |-> NoValue, page |-> 1, perPage |-> 10]
    /\ r34Reqs' = <<>>
    /\ r34Page' = [items |-> 0, href |-> NoValue]
    /\ r34Ok' = TRUE
    /\ r34Result' = [k |-> "pending", err |-> "", v |-> NoResult]
    /\ haPc' = "idle"
    /\ haArgs' = [query |-> NoValue, page |-> 1, perPage |-> 10]
    /\ haReqs' = <<>>
    /\ haResponse' = HANoResponse
    /\ haResult' = HAPending
    /\ hsPc' = "idle"
    /\ hsId' = NoValue
    /\ hsReqs' = <<>>
    /\ hsPage' = HSNoPage
    /\ hsMatching' = <<>>
    /\ hsInfo' = <<>>
    /\ hsSettled' = <<>>
    /\ hsResult' = HSPending
    /\ fcPc' = "idle"
    /\ fcCall' = [op |-> "none", arg |-> NoValue]
    /\ fcReqs' = <<>>
    /\ fcGot' = <<>>
    /\ fcResult' = [k |-> "pending", err |-> ""]
    /\ answered' = 0
    /\ UNCHANGED client

InitRot13 ==
    /\ InitRot
    /\ client = Rule34Client(NoOptions)
    /\ InitCtor
    /\ InitHI
    /\ InitHH
    /\ InitR34
    /\ InitHA
    /\ NormIdle
    /\ InitHS
    /\ InitFC
    /\ answered = 0

NextRot13 == Rot13Call /\ UNCHANGED <<clientVars, ctorVars, hiVars, hhVars, r34Vars, haVars, normVars, hsVars, fcVars, upVars>>

\* rot13Cipher called on its own.
SpecRot13 == InitRot13 /\ [][NextRot13]_vars

InitGetEpisode ==
    /\ RotIdle
    /\ client = HentaiHavenClient(EmptyOptions)
    /\ InitCtor
    /\ InitHI
    /\ InitHH
    /\ InitR34
    /\ InitHA
    /\ NormIdle
    /\ InitHS
    /\ InitFC
    /\ answered = 0

NextHH ==
    \/ HHGetEpisode /\ UNCHANGED <<rotVars, ctorVars, hiVars, r34Vars, haVars, normVars, hsVars, fcVars, upVars>>
    \/ HHPageResponse /\ Answer /\ UNCHANGED <<rotVars, ctorVars, hiVars, r34Vars, haVars, normVars, hsVars, fcVars>>
    \/ HHIframeResponse /\ Answer /\ UNCHANGED <<rotVars, ctorVars, hiVars, r34Vars, haVars, normVars, hsVars, fcVars>>
    \/ HHApiResponse /\ Answer /\ UNCHANGED <<rotVars, ctorVars, hiVars, r34Vars, haVars, normVars, hsVars, fcVars>>

\* One HentaiHaven.getEpisode call against the upstream site.
SpecHH == InitGetEpisode /\ [][NextHH]_vars

InitSearch ==
    /\ RotIdle
    /\ client = Rule34Client(NoOptions)
    /\ InitCtor
    /\ InitHI
    /\ InitHH
    /\ InitR34
    /\ InitHA
    /\ NormIdle
    /\ InitHS
    /\ InitFC
    /\ answered = 0

NextR34 ==
    \/ R34Search /\ UNCHANGED <<rotVars, ctorVars, hiVars, hhVars, haVars, normVars, hsVars, fcVars, upVars>>
    \/ R34Response /\ Answer /\ UNCHANGED <<rotVars, ctorVars, hiVars, hhVars, haVars, normVars, hsVars, fcVars>>

\* One Rule34.search call against the upstream site.
SpecR34 == InitSearch /\ [][NextR34]_vars

InitHAnime ==
    /\ RotIdle
    /\ client \in { HAnimeClient(options) : options \in {NoOptions, CustomOptions} }
    /\ InitCtor
    /\ InitHI
    /\ InitHH
    /\ InitR34
    /\ InitHA
    /\ NormIdle
    /\ InitHS
    /\ InitFC
    /\ answered = 0

NextHAnime ==
    \/ HASearch /\ UNCHANGED <<rotVars, ctorVars, hiVars, hhVars, r34Vars, normVars, hsVars, fcVars, upVars>>
    \/ HAResponse /\ Answer /\ UNCHANGED <<rotVars, ctorVars, hiVars, hhVars, r34Vars, normVars, hsVars, fcVars>>

\* One HAnime.search call against the search service.
SpecHAnime == InitHAnime /\ [][NextHAnime]_vars

InitGetInfo ==
    /\ RotIdle
    /\ client = HentaiStreamClient(NoOptions)
    /\ InitCtor
    /\ InitHI
    /\ InitHH
    /\ InitR34
    /\ InitHA
    /\ NormIdle
    /\ InitHS
    /\ InitFC
    /\ answered = 0

NextHS ==
    \/ HSGetInfo /\ UNCHANGED <<rotVars, ctorVars, hiVars, hhVars, r34Vars, haVars, normVars, fcVars, upVars>>
    \/ HSSearchResponse /\ Answer /\ UNCHANGED <<rotVars, ctorVars, hiVars, hhVars, r34Vars, haVars, normVars, fcVars>>
    \/ HSDetailResponse /\ Answer /\ UNCHANGED <<rotVars, ctorVars, hiVars, hhVars, r34Vars, haVars, normVars, fcVars>>

\* One HentaiStream.getInfo call against the upstream site.
SpecHS == InitGetInfo /\ [][NextHS]_vars

InitNormalize ==
    /\ RotIdle
    /\ client = Rule34Client(NoOptions)
    /\ InitCtor
    /\ InitHI
    /\ InitHH
    /\ InitR34
    /\ InitHA
    /\ InitNorm
    /\ InitHS
    /\ InitFC
    /\ answered = 0

NextNormalize == NormalizeCall /\ UNCHANGED <<rotVars, clientVars, ctorVars, hiVars, hhVars, r34Vars, haVars, hsVars, fcVars, upVars>>

\* normalize called on its own.
SpecNormalize == InitNormalize /\ [][NextNormalize]_vars

InitConstruct ==
    /\ RotIdle
    /\ client = Rule34Client(NoOptions)
    /\ InitCtor
    /\ InitHI
    /\ InitHH
    /\ InitR34
    /\ InitHA
    /\ NormIdle
    /\ InitHS
    /\ InitFC
    /\ answered = 0

NextConstruct == Construct /\ UNCHANGED <<rotVars, hiVars, hhVars, r34Vars, haVars, normVars, hsVars, fcVars, upVars>>

\* A client is constructed.
SpecConstruct == InitConstruct /\ [][NextConstruct]_vars

InitHHInfo ==
    /\ RotIdle
    /\ client = HentaiHavenClient(EmptyOptions)
    /\ InitCtor
    /\ InitHI
    /\ InitHH
    /\ InitR34
    /\ InitHA
    /\ NormIdle
    /\ InitHS
    /\ InitFC
    /\ answered = 0

NextHHInfo ==
    \/ HIGetInfo /\ UNCHANGED <<rotVars, ctorVars, hhVars, r34Vars, haVars, normVars, hsVars, fcVars, upVars>>
    \/ HIResponse /\ Answer /\ UNCHANGED <<rotVars, ctorVars, hhVars, r34Vars, haVars, normVars, hsVars, fcVars>>

\* One HentaiHaven.getInfo call against the upstream site.
SpecHHInfo == InitHHInfo /\ [][NextHHInfo]_vars

InitEpisodeIds ==
    /\ RotIdle
    /\ client \in { HentaiHavenClient(EmptyOptions), HentaiHavenClient(CustomOptions),
                   HentaiStreamClient(NoOptions) }
    /\ InitCtor
    /\ InitHI
    /\ InitHH
    /\ InitR34
    /\ InitHA
    /\ NormIdle
    /\ InitHS
    /\ InitFC
    /\ answered = 0

NextEpisodeIds ==
    \/ HIGetInfo /\ UNCHANGED <<rotVars, ctorVars, hhVars, r34Vars, haVars, normVars, hsVars, fcVars, upVars>>
    \/ HIResponse /\ Answer /\ UNCHANGED <<rotVars, ctorVars, hhVars, r34Vars, haVars, normVars, hsVars, fcVars>>
    \/ hiResult.k = "return" /\ HHGetEpisode /\ UNCHANGED <<rotVars, ctorVars, hiVars, r34Vars, haVars, normVars, hsVars, fcVars, upVars>>
    \/ HSGetInfo /\ UNCHANGED <<rotVars, ctorVars, hiVars, hhVars, r34Vars, haVars, normVars, fcVars, upVars>>
    \/ HSSearchResponse /\ Answer /\ UNCHANGED <<rotVars, ctorVars, hiVars, hhVars, r34Vars, haVars, normVars, fcVars>>
    \/ HSDetailResponse /\ Answer /\ UNCHANGED <<rotVars, ctorVars, hiVars, hhVars, r34Vars, haVars, normVars, fcVars>>
    \/ hsResult.k = "return" /\ HSGetEpisode /\ UNCHANGED <<rotVars, ctorVars, hiVars, hhVars, r34Vars, haVars, normVars, hsVars, upVars>>

\* getInfo, then getEpisode on the same client once getInfo has returned.
SpecEpisodeIds == InitEpisodeIds /\ [][NextEpisodeIds]_vars

InitFacade ==
    /\ RotIdle
    /\ client \in Clients
    /\ InitCtor
    /\ InitHI
    /\ InitHH
    /\ InitR34
    /\ InitHA
    /\ NormIdle
    /\ InitHS
    /\ InitFC
    /\ answered = 0

NextFacade ==
    \/ MayStart /\ R34Search /\ UNCHANGED <<rotVars, ctorVars, hiVars, hhVars, haVars, normVars, hsVars, fcVars, upVars>>
    \/ R34Response /\ Answer /\ UNCHANGED <<rotVars, ctorVars, hiVars, hhVars, haVars, normVars, hsVars, fcVars>>
    \/ MayStart /\ HHGetEpisode /\ UNCHANGED <<rotVars, ctorVars, hiVars, r34Vars, haVars, normVars, hsVars, fcVars, upVars>>
    \/ HHPageResponse /\ Answer /\ UNCHANGED <<rotVars, ctorVars, hiVars, r34Vars, haVars, normVars, hsVars, fcVars>>
    \/ HHIframeResponse /\ Answer /\ UNCHANGED <<rotVars, ctorVars, hiVars, r34Vars, haVars, normVars, hsVars, fcVars>>
    \/ HHApiResponse /\ Answer /\ UNCHANGED <<rotVars, ctorVars, hiVars, r34Vars, haVars, normVars, hsVars, fcVars>>
    \/ MayStart /\ HASearch /\ UNCHANGED <<rotVars, ctorVars, hiVars, hhVars, r34Vars, normVars, hsVars, fcVars, upVars>>
    \/ HAResponse /\ Answer /\ UNCHANGED <<rotVars, ctorVars, hiVars, hhVars, r34Vars, normVars, hsVars, fcVars>>
    \/ MayStart /\ HSGetInfo /\ UNCHANGED <<rotVars, ctorVars, hiVars, hhVars, r34Vars, haVars, normVars, fcVars, upVars>>
    \/ HSSearchResponse /\ Answer /\ UNCHANGED <<rotVars, ctorVars, hiVars, hhVars, r34Vars, haVars, normVars, fcVars>>
    \/ HSDetailResponse /\ Answer /\ UNCHANGED <<rotVars, ctorVars, hiVars, hhVars, r34Vars, haVars, normVars, fcVars>>
    \/ MayStart /\ R34SearchAutocomplete /\ UNCHANGED <<rotVars, ctorVars, hiVars, hhVars, r34Vars, haVars, normVars, hsVars, upVars>>
    \/ R34SearchAutocompleteResponse /\ Answer /\ UNCHANGED <<rotVars, ctorVars, hiVars, hhVars, r34Vars, haVars, normVars, hsVars>>
    \/ MayStart /\ R34GetInfo /\ UNCHANGED <<rotVars, ctorVars, hiVars, hhVars, r34Vars, haVars, normVars, hsVars, upVars>>
    \/ R34GetInfoResponse /\ Answer /\ UNCHANGED <<rotVars, ctorVars, hiVars, hhVars, r34Vars, haVars, normVars, hsVars>>
    \/ MayStart /\ HHSearch /\ UNCHANGED <<rotVars, ctorVars, hiVars, hhVars, r34Vars, haVars, normVars, hsVars, upVars>>
    \/ HHSearchResponse /\ Answer /\ UNCHANGED <<rotVars, ctorVars, hiVars, hhVars, r34Vars, haVars, normVars, hsVars>>
    \/ MayStart /\ HHGetInfo /\ UNCHANGED <<rotVars, ctorVars, hiVars, hhVars, r34Vars, haVars, normVars, hsVars, upVars>>
    \/ HHGetInfoResponse /\ Answer /\ UNCHANGED <<rotVars, ctorVars, hiVars, hhVars, r34Vars, haVars, normVars, hsVars>>
    \/ MayStart /\ HSSearch /\ UNCHANGED <<rotVars, ctorVars, hiVars, hhVars, r34Vars, haVars, normVars, hsVars, upVars>>
    \/ HSSearchOnlyResponse /\ Answer /\ UNCHANGED <<rotVars, ctorVars, hiVars, hhVars, r34Vars, haVars, normVars, hsVars>>
    \/ MayStart /\ HSGetInfoEpisode /\ UNCHANGED <<rotVars, ctorVars, hiVars, hhVars, r34Vars, haVars, normVars, hsVars, upVars>>
    \/ HSGetInfoEpisodeResponse /\ Answer /\ UNCHANGED <<rotVars, ctorVars, hiVars, hhVars, r34Vars, haVars, normVars, hsVars>>
    \/ MayStart /\ HSGetEpisode /\ UNCHANGED <<rotVars, ctorVars, hiVars, hhVars, r34Vars, haVars, normVars, hsVars, upVars>>
    \/ HSGetEpisodeResponse /\ Answer /\ UNCHANGED <<rotVars, ctorVars, hiVars, hhVars, r34Vars, haVars, normVars, hsVars>>
    \/ HSGetEpisodeFrameResponse /\ Answer /\ UNCHANGED <<rotVars, ctorVars, hiVars, hhVars, r34Vars, haVars, normVars, hsVars>>
    \/ CallAgain /\ UNCHANGED <<rotVars, ctorVars, hiVars, normVars>>

\* One call of one operation on a client built with or without options.
SpecFacade == InitFacade /\ [][NextFacade]_vars

=============================================================================
